---- MODULE Spec2Model ----
(***************************************************************************)
(* Capital gains calculator: the tax set-off engine (capital_gains/tax.py),*)
(* the two Schwab parsers (capital_gains/parsers/schwab.py: the FIFO lot   *)
(* matcher of the individual brokerage account and the equity-award        *)
(* parser), the exchange rate service (capital_gains/exchange_rates.py),   *)
(* the currency translation (capital_gains/calculator.py) and the two      *)
(* entry points (main.py and the Calculate handler of app.py).             *)
(*                                                                         *)
(* Money and share counts are Python floats in the source.  The model      *)
(* computes them exactly: whole amounts are integers and the results of a  *)
(* division or of a multiplication by a rate are rationals, records        *)
(* [n |-> numerator, d |-> denominator] in lowest terms with d > 0.        *)
(* Floating-point rounding is outside the model.                           *)
(***************************************************************************)
EXTENDS Integers, Sequences, FiniteSets, TLC

VARIABLES
    rates,              \* TaxCalculator.rates
    tax_transactions,   \* calculate(transactions=...): list of SaleTransaction
    indian_gains,       \* calculate(indian_gains=...): list of IndianGains
    taxes_paid,         \* calculate(taxes_paid=...)
    tax_pc,             \* "idle" before the first calculate(), then "done"
    tax_data,           \* the TaxData returned by the last calculate()
    transactions,       \* SchwabIndividualParser.parse(transactions=...)
    start_date,         \* SchwabIndividualParser.parse(start_date=...)
    pc,                 \* position of parse(): "start", "loop", "done"
    sorted_txns,        \* parse(): sorted_txns
    idx,                \* parse(): index of the next element of sorted_txns
    lots_by_symbol,     \* parse(): lots_by_symbol
    sale_transactions,  \* parse(): sale_transactions
    eac_transactions,   \* SchwabEACParser.parse(transactions=...)
    eac_start_date,     \* SchwabEACParser.parse(start_date=...)
    eac_pc,             \* position of SchwabEACParser.parse(): "loop", "done"
    eac_idx,            \* index of the next element of transactions
    eac_sale_transactions,  \* SchwabEACParser.parse(): sale_transactions
    cache,              \* ExchangeRateService.cache: date string -> rate
    sbi_rates,          \* ExchangeRateService.sbi_rates: date string -> rate
    rate_file,          \* the JSON file of rates at the path the calls use
    call,               \* the last call on the service and what it returned
    calc_transactions,  \* CapitalGainsCalculator.calculate(transactions=...)
    calc_use_sbi,       \* calculate(use_sbi=...)
    calc_sbi_rates_file,    \* calculate(sbi_rates_file=...): a path was given
    calc_pc,            \* "idle" before the first calculate(), then "done"
    eula_marker,        \* main.py: EULA_CONFIG_FILE exists
    entry,              \* the entry point of the last run: "main" or "app"
    main_pc,            \* position of the run
    args,               \* main(): args
    files,              \* main(): files; app.py: the uploaded files
    response,           \* prompt_eula_acceptance(): what input() gave
    opened,             \* the sources whose file the run has read
    errors,             \* the sources the run has reported an error for
    all_transactions,   \* main(): all_transactions
    main_indian_gains,  \* main(): indian_gains
    main_tax_data       \* main(): tax_data and what it was calculated from

tax_vars == <<rates, tax_transactions, indian_gains, taxes_paid, tax_pc, tax_data>>
parse_vars == <<transactions, start_date, pc, sorted_txns, idx,
                lots_by_symbol, sale_transactions>>
eac_vars == <<eac_transactions, eac_start_date, eac_pc, eac_idx,
              eac_sale_transactions>>
vars == <<rates, tax_transactions, indian_gains, taxes_paid, tax_pc, tax_data,
          transactions, start_date, pc, sorted_txns, idx,
          lots_by_symbol, sale_transactions,
          eac_transactions, eac_start_date, eac_pc, eac_idx,
          eac_sale_transactions,
          cache, sbi_rates, rate_file, call,
          calc_transactions, calc_use_sbi, calc_sbi_rates_file, calc_pc,
          eula_marker, entry, main_pc, args, files, response, opened, errors,
          all_transactions, main_indian_gains, main_tax_data>>
rate_vars == <<cache, sbi_rates, rate_file, call>>
calc_vars == <<calc_transactions, calc_use_sbi, calc_sbi_rates_file, calc_pc>>
main_vars == <<eula_marker, entry, main_pc, args, files, response, opened,
               errors, all_transactions, main_indian_gains, main_tax_data>>

----------------------------------------------------------------------------
(* Arithmetic of the Python built-ins and of exact rationals.              *)

Min(a, b) == IF a <= b THEN a ELSE b

Max(a, b) == IF a >= b THEN a ELSE b

Abs(a) == IF a < 0 THEN 0 - a ELSE a

RECURSIVE GCD(_, _)
GCD(a, b) == IF b = 0 THEN a ELSE GCD(b, a % b)

\* the sum of the first k numbers of a sequence
RECURSIVE SumFirst(_, _)
SumFirst(q, k) == IF k = 0 THEN 0 ELSE q[k] + SumFirst(q, k - 1)

\* n / d for d > 0, in lowest terms
Rat(n, d) ==
    LET g == GCD(Abs(n), d)
    IN  [n |-> n \div g, d |-> d \div g]

IntRat(i) == [n |-> i, d |-> 1]

RAdd(p, q) == Rat(p.n * q.d + q.n * p.d, p.d * q.d)

RSub(p, q) == Rat(p.n * q.d - q.n * p.d, p.d * q.d)

RMul(p, q) == Rat(p.n * q.n, p.d * q.d)

RLess(p, q) == p.n * q.d < q.n * p.d


----------------------------------------------------------------------------
(* Input domains.                                                          *)

MaxTxns == 2

MaxGains == 1

MaxEvents == 3

\* capital_gain_inr of a SaleTransaction, in rupees
TxnGainValues == {0 - 75000, 50000, 100000}

\* IndianGains.ltcg: a loss, nothing, below / at / above the exemption
IndianLtcgValues == {0 - 50000, 0, 50000, 125000, 175000}

\* IndianGains.stcg
IndianStcgValues == {0 - 50000, 0, 50000}

\* calculate(taxes_paid=...): nothing, part of the tax, more than any tax
TaxesPaidValues == {0, 5000, 500000}

BoundedSeq(S, n) == UNION {[1..k -> S] : k \in 0..n}

SaleTransactionInputs ==
    [capital_gain_inr : TxnGainValues, is_long_term : BOOLEAN]

IndianGainsInputs == [ltcg : IndianLtcgValues, stcg : IndianStcgValues]

----------------------------------------------------------------------------
(* capital_gains/tax.py                                                    *)

\* TaxRates(): the effective rates and the Section 112A exemption
TaxRates ==
    [INDIAN_LTCG    |-> Rat(1495, 10000),
     FOREIGN_LTCG   |-> Rat(1495, 10000),
     INDIAN_STCG    |-> Rat(2392, 10000),
     FOREIGN_STCG   |-> Rat(39, 100),
     LTCG_EXEMPTION |-> 125000]

\* TaxData(): the dataclass defaults
TaxData ==
    [schwab_ltcg |-> 0, schwab_stcg |-> 0, indian_ltcg |-> 0, indian_stcg |-> 0,
     total_ltcg |-> 0, total_stcg |-> 0,
     ltcg_rebate |-> 125000, rebate_used |-> 0, indian_ltcg_after_rebate |-> 0,
     net_ltcg |-> 0, net_stcg |-> 0,
     foreign_ltcg_gain |-> 0, foreign_ltcg_loss |-> 0,
     indian_ltcg_gain |-> 0, indian_ltcg_loss |-> 0,
     foreign_stcg_gain |-> 0, foreign_stcg_loss |-> 0,
     indian_stcg_gain |-> 0, indian_stcg_loss |-> 0,
     stcg_loss_vs_foreign_stcg |-> 0, stcg_loss_vs_indian_stcg |-> 0,
     stcg_loss_vs_ltcg |-> 0, ltcg_loss_vs_ltcg |-> 0,
     foreign_ltcg_taxable |-> IntRat(0), indian_ltcg_taxable |-> IntRat(0),
     indian_stcg_taxable |-> 0, foreign_stcg_taxable |-> 0,
     foreign_ltcg_tax |-> IntRat(0), indian_ltcg_tax |-> IntRat(0),
     indian_stcg_tax |-> IntRat(0), foreign_stcg_tax |-> IntRat(0),
     ltcg_tax |-> IntRat(0), stcg_tax |-> IntRat(0), total_tax |-> IntRat(0),
     taxes_paid |-> 0, tax_liability |-> IntRat(0),
     indian_ltcg_rate |-> Rat(1495, 10000), foreign_ltcg_rate |-> Rat(1495, 10000),
     indian_stcg_rate |-> Rat(2392, 10000), foreign_stcg_rate |-> Rat(39, 100)]

\* sum(t.capital_gain_inr for t in transactions if t.is_long_term == long_term)
RECURSIVE SumCapitalGainInr(_, _)
SumCapitalGainInr(txns, long_term) ==
    IF txns = <<>> THEN 0
    ELSE (IF Head(txns).is_long_term = long_term
          THEN Head(txns).capital_gain_inr ELSE 0)
         + SumCapitalGainInr(Tail(txns), long_term)

\* sum(g.ltcg for g in indian_gains)
RECURSIVE SumLtcg(_)
SumLtcg(gains) ==
    IF gains = <<>> THEN 0 ELSE Head(gains).ltcg + SumLtcg(Tail(gains))

\* sum(g.stcg for g in indian_gains)
RECURSIVE SumStcg(_)
SumStcg(gains) ==
    IF gains = <<>> THEN 0 ELSE Head(gains).stcg + SumStcg(Tail(gains))

\* _apply_ltcg_exemption: rebate_used
RebateUsed(indian_ltcg, exemption) ==
    IF indian_ltcg > 0 THEN Min(indian_ltcg, exemption) ELSE 0

\* mutant: the exemption is subtracted without the floor at 0
IndianLtcgAfterRebateNoFloor(indian_ltcg, exemption) ==
    IF indian_ltcg > 0 THEN indian_ltcg - exemption ELSE indian_ltcg

\* _apply_ltcg_exemption: indian_ltcg_after_rebate
IndianLtcgAfterRebate(indian_ltcg, exemption) ==
    IF indian_ltcg > 0 THEN Max(0, indian_ltcg - exemption) ELSE indian_ltcg

ApplyLtcgExemption(td, r) ==
    [td EXCEPT
        !.rebate_used = RebateUsed(td.indian_ltcg, r.LTCG_EXEMPTION),
        !.indian_ltcg_after_rebate =
            IndianLtcgAfterRebate(td.indian_ltcg, r.LTCG_EXEMPTION)]

\* the loss part of a bucket: abs(min(0, x))
LossOf(x) == Abs(Min(0, x))

\* mutant: a bucket in loss is carried on as a negative gain
GainOfUnclamped(x) == x

\* the gain part of a bucket: max(0, x)
GainOf(x) == Max(0, x)

\* mutant: the foreign long-term loss joins the short-term loss pool
TotalStcgLossWithLtcg(td) ==
    LossOf(td.schwab_stcg) + LossOf(td.indian_stcg) + LossOf(td.schwab_ltcg)

\* total_stcg_loss = foreign_stcg_loss + indian_stcg_loss
TotalStcgLoss(td) == LossOf(td.schwab_stcg) + LossOf(td.indian_stcg)

\* total_ltcg_loss = foreign_ltcg_loss + indian_ltcg_loss
TotalLtcgLoss(td) == LossOf(td.schwab_ltcg) + LossOf(td.indian_ltcg_after_rebate)

\* mutant: the whole gain is set off, whatever the loss
SetoffAmountWholeGain(loss, gain) == gain

\* a set-off of a loss against a gain: min(loss, gain)
SetoffAmount(loss, gain) == Min(loss, gain)

\* foreign_ltcg_ratio, indian_ltcg_ratio: gain / total_ltcg_gain, guarded
LtcgRatio(gain, total_ltcg_gain) ==
    IF total_ltcg_gain > 0 THEN Rat(gain, total_ltcg_gain) ELSE IntRat(0)

\* mutant: the whole remaining LTCG goes to each side
LtcgTaxableUnsplit(final_ltcg, ratio) == IntRat(final_ltcg)

\* final_ltcg * foreign_ltcg_ratio, final_ltcg * indian_ltcg_ratio
LtcgTaxable(final_ltcg, ratio) == RMul(IntRat(final_ltcg), ratio)

\* mutant: the long-term losses are applied to the LTCG gains before the
\* short-term loss that is left
SetoffAgainstLtcgLongTermFirst(stcg_loss_remaining, total_ltcg_loss, total_ltcg_gain) ==
    LET setoff_ltcg_against_ltcg == SetoffAmount(total_ltcg_loss, total_ltcg_gain)
        ltcg_after_ltcg_setoff == total_ltcg_gain - setoff_ltcg_against_ltcg
        setoff_stcg_against_ltcg ==
            SetoffAmount(stcg_loss_remaining, ltcg_after_ltcg_setoff)
    IN  [setoff_stcg_against_ltcg |-> setoff_stcg_against_ltcg,
         setoff_ltcg_against_ltcg |-> setoff_ltcg_against_ltcg,
         final_ltcg |-> ltcg_after_ltcg_setoff - setoff_stcg_against_ltcg]

\* _apply_loss_setoff, Step 3: the remaining STCG losses against the LTCG
\* gains; Step 4: the LTCG losses against what is left of the LTCG gains
SetoffAgainstLtcg(stcg_loss_remaining, total_ltcg_loss, total_ltcg_gain) ==
    LET setoff_stcg_against_ltcg == SetoffAmount(stcg_loss_remaining, total_ltcg_gain)
        ltcg_after_stcg_setoff == total_ltcg_gain - setoff_stcg_against_ltcg
        setoff_ltcg_against_ltcg ==
            SetoffAmount(total_ltcg_loss, ltcg_after_stcg_setoff)
    IN  [setoff_stcg_against_ltcg |-> setoff_stcg_against_ltcg,
         setoff_ltcg_against_ltcg |-> setoff_ltcg_against_ltcg,
         final_ltcg |-> ltcg_after_stcg_setoff - setoff_ltcg_against_ltcg]

ApplyLossSetoff(td) ==
    LET foreign_ltcg_loss == LossOf(td.schwab_ltcg)
        indian_ltcg_loss == LossOf(td.indian_ltcg_after_rebate)
        foreign_stcg_loss == LossOf(td.schwab_stcg)
        indian_stcg_loss == LossOf(td.indian_stcg)
        foreign_ltcg_gain == GainOf(td.schwab_ltcg)
        indian_ltcg_gain == GainOf(td.indian_ltcg_after_rebate)
        foreign_stcg_gain == GainOf(td.schwab_stcg)
        indian_stcg_gain == GainOf(td.indian_stcg)
        total_ltcg_loss == TotalLtcgLoss(td)
        total_stcg_loss == TotalStcgLoss(td)
        total_ltcg_gain == foreign_ltcg_gain + indian_ltcg_gain
        \* Step 2: STCG losses against STCG gains, foreign first
        setoff_against_foreign_stcg ==
            SetoffAmount(total_stcg_loss, foreign_stcg_gain)
        foreign_stcg_after_setoff ==
            foreign_stcg_gain - setoff_against_foreign_stcg
        stcg_loss_remaining1 == total_stcg_loss - setoff_against_foreign_stcg
        setoff_against_indian_stcg ==
            SetoffAmount(stcg_loss_remaining1, indian_stcg_gain)
        indian_stcg_after_setoff ==
            indian_stcg_gain - setoff_against_indian_stcg
        stcg_loss_remaining2 == stcg_loss_remaining1 - setoff_against_indian_stcg
        \* Steps 3 and 4: the set-offs against the LTCG gains
        against_ltcg ==
            SetoffAgainstLtcg(stcg_loss_remaining2, total_ltcg_loss, total_ltcg_gain)
        setoff_stcg_against_ltcg == against_ltcg.setoff_stcg_against_ltcg
        setoff_ltcg_against_ltcg == against_ltcg.setoff_ltcg_against_ltcg
        final_ltcg == against_ltcg.final_ltcg
        \* Step 5: proportional distribution
        foreign_ltcg_ratio == LtcgRatio(foreign_ltcg_gain, total_ltcg_gain)
        indian_ltcg_ratio == LtcgRatio(indian_ltcg_gain, total_ltcg_gain)
    IN  [td EXCEPT
            !.foreign_ltcg_gain = foreign_ltcg_gain,
            !.foreign_ltcg_loss = foreign_ltcg_loss,
            !.indian_ltcg_gain = indian_ltcg_gain,
            !.indian_ltcg_loss = indian_ltcg_loss,
            !.foreign_stcg_gain = foreign_stcg_gain,
            !.foreign_stcg_loss = foreign_stcg_loss,
            !.indian_stcg_gain = indian_stcg_gain,
            !.indian_stcg_loss = indian_stcg_loss,
            !.stcg_loss_vs_foreign_stcg = setoff_against_foreign_stcg,
            !.stcg_loss_vs_indian_stcg = setoff_against_indian_stcg,
            !.stcg_loss_vs_ltcg = setoff_stcg_against_ltcg,
            !.ltcg_loss_vs_ltcg = setoff_ltcg_against_ltcg,
            !.foreign_ltcg_taxable = LtcgTaxable(final_ltcg, foreign_ltcg_ratio),
            !.indian_ltcg_taxable = LtcgTaxable(final_ltcg, indian_ltcg_ratio),
            !.foreign_stcg_taxable = foreign_stcg_after_setoff,
            !.indian_stcg_taxable = indian_stcg_after_setoff,
            !.net_ltcg = final_ltcg,
            !.net_stcg = foreign_stcg_after_setoff + indian_stcg_after_setoff]

\* mutant: the taxes are computed at the default rates whatever the
\* calculator was built with
CalculateTaxesAtDefaultRates(td, r) ==
    LET foreign_ltcg_tax == RMul(td.foreign_ltcg_taxable, TaxRates.FOREIGN_LTCG)
        indian_ltcg_tax == RMul(td.indian_ltcg_taxable, TaxRates.INDIAN_LTCG)
        ltcg_tax == RAdd(foreign_ltcg_tax, indian_ltcg_tax)
        indian_stcg_tax == RMul(IntRat(td.indian_stcg_taxable), TaxRates.INDIAN_STCG)
        foreign_stcg_tax == RMul(IntRat(td.foreign_stcg_taxable), TaxRates.FOREIGN_STCG)
        stcg_tax == RAdd(indian_stcg_tax, foreign_stcg_tax)
    IN  [td EXCEPT
            !.foreign_ltcg_tax = foreign_ltcg_tax,
            !.indian_ltcg_tax = indian_ltcg_tax,
            !.ltcg_tax = ltcg_tax,
            !.indian_stcg_tax = indian_stcg_tax,
            !.foreign_stcg_tax = foreign_stcg_tax,
            !.stcg_tax = stcg_tax,
            !.total_tax = RAdd(ltcg_tax, stcg_tax)]

\* _calculate_taxes
CalculateTaxes(td, r) ==
    LET foreign_ltcg_tax == RMul(td.foreign_ltcg_taxable, r.FOREIGN_LTCG)
        indian_ltcg_tax == RMul(td.indian_ltcg_taxable, r.INDIAN_LTCG)
        ltcg_tax == RAdd(foreign_ltcg_tax, indian_ltcg_tax)
        indian_stcg_tax == RMul(IntRat(td.indian_stcg_taxable), r.INDIAN_STCG)
        foreign_stcg_tax == RMul(IntRat(td.foreign_stcg_taxable), r.FOREIGN_STCG)
        stcg_tax == RAdd(indian_stcg_tax, foreign_stcg_tax)
    IN  [td EXCEPT
            !.foreign_ltcg_tax = foreign_ltcg_tax,
            !.indian_ltcg_tax = indian_ltcg_tax,
            !.ltcg_tax = ltcg_tax,
            !.indian_stcg_tax = indian_stcg_tax,
            !.foreign_stcg_tax = foreign_stcg_tax,
            !.stcg_tax = stcg_tax,
            !.total_tax = RAdd(ltcg_tax, stcg_tax)]

\* mutant: the liability is floored at 0, a refund is lost
TaxLiabilityFloored(total_tax, paid) ==
    IF RLess(total_tax, IntRat(paid)) THEN IntRat(0)
    ELSE RSub(total_tax, IntRat(paid))

\* Step 4 of calculate: tax_liability = total_tax - taxes_paid
TaxLiability(total_tax, paid) == RSub(total_tax, IntRat(paid))

\* TaxCalculator.calculate(transactions, indian_gains, taxes_paid)
TaxCalculate(txns, gains, paid, r) ==
    LET td0 == [TaxData EXCEPT
                    !.taxes_paid = paid,
                    !.ltcg_rebate = r.LTCG_EXEMPTION,
                    !.indian_ltcg_rate = r.INDIAN_LTCG,
                    !.foreign_ltcg_rate = r.FOREIGN_LTCG,
                    !.indian_stcg_rate = r.INDIAN_STCG,
                    !.foreign_stcg_rate = r.FOREIGN_STCG,
                    !.schwab_ltcg = SumCapitalGainInr(txns, TRUE),
                    !.schwab_stcg = SumCapitalGainInr(txns, FALSE),
                    !.indian_ltcg = SumLtcg(gains),
                    !.indian_stcg = SumStcg(gains)]
        td1 == [td0 EXCEPT
                    !.total_ltcg = td0.schwab_ltcg + td0.indian_ltcg,
                    !.total_stcg = td0.schwab_stcg + td0.indian_stcg]
        td2 == ApplyLtcgExemption(td1, r)
        td3 == ApplyLossSetoff(td2)
        td4 == CalculateTaxes(td3, r)
    IN  [td4 EXCEPT !.tax_liability = TaxLiability(td4.total_tax, td4.taxes_paid)]

\* TaxCalculator() and the arguments a caller holds
TaxInit ==
    /\ rates = TaxRates
    /\ tax_transactions \in BoundedSeq(SaleTransactionInputs, MaxTxns)
    /\ indian_gains \in BoundedSeq(IndianGainsInputs, MaxGains)
    /\ taxes_paid \in TaxesPaidValues
    /\ tax_pc = "idle"
    /\ tax_data = TaxData

\* TaxCalculator(rates=None)
NoRates == [none |-> TRUE]

\* rates a caller builds a TaxCalculator with: each category at a rate of
\* its own and a lower exemption; no tax at all
InjectedRates ==
    { [INDIAN_LTCG    |-> Rat(1, 10),
       FOREIGN_LTCG   |-> Rat(1, 5),
       INDIAN_STCG    |-> Rat(3, 20),
       FOREIGN_STCG   |-> Rat(3, 10),
       LTCG_EXEMPTION |-> 100000],
      [INDIAN_LTCG    |-> IntRat(0),
       FOREIGN_LTCG   |-> IntRat(0),
       INDIAN_STCG    |-> IntRat(0),
       FOREIGN_STCG   |-> IntRat(0),
       LTCG_EXEMPTION |-> 0] }

\* TaxCalculator.__init__: self.rates = rates or TaxRates()
RatesOrDefault(given) == IF given = NoRates THEN TaxRates ELSE given

\* TaxCalculator(rates) for any rates, and the gains a caller holds
TaxInitInjected ==
    /\ \E given \in InjectedRates \union {NoRates} : rates = RatesOrDefault(given)
    /\ tax_transactions \in BoundedSeq(SaleTransactionInputs, MaxTxns)
    /\ indian_gains \in BoundedSeq(IndianGainsInputs, MaxGains)
    /\ taxes_paid = 0
    /\ tax_pc = "idle"
    /\ tax_data = TaxData

\* calculate() written to pop the sales off the list it is given
CalculateDrainingInput ==
    /\ tax_data' = TaxCalculate(tax_transactions, indian_gains, taxes_paid, rates)
    /\ tax_pc' = "done"
    /\ tax_transactions' = <<>>
    /\ UNCHANGED <<rates, indian_gains, taxes_paid>>

\* tax_data = calculator.calculate(tax_transactions, indian_gains, taxes_paid)
Calculate ==
    /\ tax_data' = TaxCalculate(tax_transactions, indian_gains, taxes_paid, rates)
    /\ tax_pc' = "done"
    /\ UNCHANGED <<rates, tax_transactions, indian_gains, taxes_paid>>


----------------------------------------------------------------------------
(* capital_gains/parsers/schwab.py: SchwabIndividualParser                 *)
(* A brokerage transaction is the dict of the JSON export.  Date is the    *)
(* day number parse_date yields, Price and Fees the dollars parse_currency *)
(* yields, Quantity the string of the export ("" when the field is empty). *)

LONG_TERM_DAYS == 730

Symbols == {"VTI", "BND"}

\* the symbol of the single-symbol exports
OneSymbol == {"VTI"}

\* day numbers of parse_date: purchases on day 1 and day 2
Dates == {1, 2}

\* sales on day 2 and on day 732, which is 731 days after day 1 and 730 after day 2
SellDates == {2, 732}

StartDates == {732}

QuantityStrings == {"0", "1", "2"}

BuyPrices == {10, 20}

SellPrices == {30}

SellFees == {6}

\* float(quantity_str)
Float(quantity_str) ==
    CASE quantity_str = "0" -> 0
      [] quantity_str = "1" -> 1
      [] quantity_str = "2" -> 2
      [] quantity_str = "3" -> 3

BuyEvents ==
    [Action : {"Buy"}, Date : Dates, Symbol : OneSymbol,
     Quantity : QuantityStrings, Price : BuyPrices, Fees : {0}]

SellEvents ==
    [Action : {"Sell"}, Date : SellDates, Symbol : OneSymbol,
     Quantity : QuantityStrings, Price : SellPrices, Fees : SellFees]

\* a cash movement: no symbol, no quantity
OtherEvents ==
    [Action : {"Cash Dividend"}, Date : {1}, Symbol : {""},
     Quantity : {""}, Price : {0}, Fees : {0}]

BrokerageTransactions == BuyEvents \cup SellEvents \cup OtherEvents

\* _is_long_term written with >=: two years to the day already long-term
IsLongTermFromTwoYears(holding_days) == holding_days >= LONG_TERM_DAYS

\* BaseSchwabParser._is_long_term
IsLongTerm(holding_days) == holding_days > LONG_TERM_DAYS

\* StockLot(purchase_date, symbol, quantity, price); __post_init__ sets remaining
StockLot(purchase_date, symbol, quantity, price) ==
    [purchase_date |-> purchase_date, symbol |-> symbol,
     quantity |-> quantity, price |-> price, remaining |-> quantity]

\* mutant: x goes before the elements of its own date, so that events of
\* one day come out in the reverse of their input order
RECURSIVE InsertByDateBeforeEqual(_, _)
InsertByDateBeforeEqual(sorted, x) ==
    IF sorted = <<>> THEN <<x>>
    ELSE IF sorted[Len(sorted)].Date < x.Date THEN Append(sorted, x)
    ELSE Append(InsertByDateBeforeEqual(SubSeq(sorted, 1, Len(sorted) - 1), x),
                sorted[Len(sorted)])

\* list.insert of x after the last element whose Date is <= x.Date
RECURSIVE InsertByDate(_, _)
InsertByDate(sorted, x) ==
    IF sorted = <<>> THEN <<x>>
    ELSE IF sorted[Len(sorted)].Date <= x.Date THEN Append(sorted, x)
    ELSE Append(InsertByDate(SubSeq(sorted, 1, Len(sorted) - 1), x),
                sorted[Len(sorted)])

\* sorted(transactions, key=lambda x: parse_date(x["Date"])): stable
RECURSIVE SortedByDate(_)
SortedByDate(txns) ==
    IF txns = <<>> THEN <<>>
    ELSE InsertByDate(SortedByDate(SubSeq(txns, 1, Len(txns) - 1)),
                      txns[Len(txns)])

\* mutant: a sale before start_date that leaves the lots as they are
ConsumeLotsNotApplied(lots, i, remaining) == lots

\* _process_sale, the loop for a sale before start_date: the lots it leaves
RECURSIVE ConsumeLots(_, _, _)
ConsumeLots(lots, i, remaining) ==
    IF i > Len(lots) THEN lots
    ELSE IF lots[i].remaining <= 0 THEN ConsumeLots(lots, i + 1, remaining)
    ELSE LET sold_from_lot == Min(lots[i].remaining, remaining)
             lots1 == [lots EXCEPT ![i].remaining = @ - sold_from_lot]
         IN  IF remaining - sold_from_lot <= 0 THEN lots1
             ELSE ConsumeLots(lots1, i + 1, remaining - sold_from_lot)

\* mutant: the loop walks the lots newest first
RECURSIVE FifoMatchNewestFirst(_, _, _)
FifoMatchNewestFirst(lots, i, remaining_to_sell) ==
    LET j == Len(lots) + 1 - i
    IN  IF i > Len(lots) THEN <<>>
        ELSE IF lots[j].remaining <= 0
             THEN FifoMatchNewestFirst(lots, i + 1, remaining_to_sell)
        ELSE LET sold_from_lot == Min(lots[j].remaining, remaining_to_sell)
             IN  <<[lot |-> j, sold_from_lot |-> sold_from_lot]>> \o
                 (IF remaining_to_sell - sold_from_lot <= 0 THEN <<>>
                  ELSE FifoMatchNewestFirst(lots, i + 1,
                                            remaining_to_sell - sold_from_lot))

\* _process_sale, the FIFO loop: for every lot the loop does not skip, in
\* order, the lot's index and sold_from_lot
RECURSIVE FifoMatch(_, _, _)
FifoMatch(lots, i, remaining_to_sell) ==
    IF i > Len(lots) THEN <<>>
    ELSE IF lots[i].remaining <= 0 THEN FifoMatch(lots, i + 1, remaining_to_sell)
    ELSE LET sold_from_lot == Min(lots[i].remaining, remaining_to_sell)
         IN  <<[lot |-> i, sold_from_lot |-> sold_from_lot]>> \o
             (IF remaining_to_sell - sold_from_lot <= 0 THEN <<>>
              ELSE FifoMatch(lots, i + 1, remaining_to_sell - sold_from_lot))

\* mutant: the FIFO loop forgets lot.remaining -= sold_from_lot
ApplyMatchesNotApplied(lots, matches) == lots

\* mutant: lot.remaining += sold_from_lot
RECURSIVE ApplyMatchesAdding(_, _)
ApplyMatchesAdding(lots, matches) ==
    IF matches = <<>> THEN lots
    ELSE ApplyMatchesAdding(
            [lots EXCEPT ![Head(matches).lot].remaining =
                            @ + Head(matches).sold_from_lot],
            Tail(matches))

\* lot.remaining -= sold_from_lot for every lot of the FIFO loop
RECURSIVE ApplyMatches(_, _)
ApplyMatches(lots, matches) ==
    IF matches = <<>> THEN lots
    ELSE ApplyMatches(
            [lots EXCEPT ![Head(matches).lot].remaining =
                            @ - Head(matches).sold_from_lot],
            Tail(matches))

\* every record charged the whole fee of the sell
FeesForLotWhole(total_fees_usd, sold_from_lot, total_quantity) ==
    IntRat(total_fees_usd)

\* fees_for_lot
FeesForLot(total_fees_usd, sold_from_lot, total_quantity) ==
    IF total_quantity > 0
    THEN Rat(total_fees_usd * sold_from_lot, total_quantity)
    ELSE IntRat(0)

\* the SaleTransaction _process_sale builds for one lot
SaleTxn(txn, lot, sold_from_lot) ==
    [sale_date |-> txn.Date,
     acquisition_date |-> lot.purchase_date,
     stock_type |-> "TRADE",
     symbol |-> txn.Symbol,
     shares |-> sold_from_lot,
     sale_price_usd |-> txn.Price,
     acquisition_price_usd |-> lot.price,
     gross_proceeds_usd |-> txn.Price * sold_from_lot,
     grant_id |-> "None",
     source |-> "Individual",
     fees_and_commissions_usd |->
        FeesForLot(txn.Fees, sold_from_lot, Float(txn.Quantity)),
     holding_period_days |-> txn.Date - lot.purchase_date,
     is_long_term |-> IsLongTerm(txn.Date - lot.purchase_date)]

\* mutant: the unmatched tail of a sell becomes a record of a lot of cost 0
ProcessSaleRecordsZeroCost(txn, lots) ==
    LET matches == FifoMatch(lots, 1, Float(txn.Quantity))
        matched == [k \in 1..Len(matches) |->
                        SaleTxn(txn, lots[matches[k].lot], matches[k].sold_from_lot)]
        unmatched == Float(txn.Quantity) - SumFirst([k \in 1..Len(matches) |->
                                        matches[k].sold_from_lot], Len(matches))
    IN  IF unmatched > 0
        THEN Append(matched,
                    SaleTxn(txn, StockLot(txn.Date, txn.Symbol, unmatched, 0),
                            unmatched))
        ELSE matched

\* _process_sale on or after start_date: the records it returns
ProcessSaleRecords(txn, lots) ==
    LET matches == FifoMatch(lots, 1, Float(txn.Quantity))
    IN  [k \in 1..Len(matches) |->
            SaleTxn(txn, lots[matches[k].lot], matches[k].sold_from_lot)]

\* _process_sale on or after start_date: the lots it leaves
ProcessSaleLots(txn, lots) ==
    ApplyMatches(lots, FifoMatch(lots, 1, Float(txn.Quantity)))

\* the brokerage events of two symbols: purchases and reinvested dividends
\* on day 1 and on the cutoff day, sales before the cutoff and on it
LotBuyEvents ==
    [Action : {"Buy"}, Date : {1, 732}, Symbol : Symbols,
     Quantity : {"1", "2"}, Price : {10}, Fees : {0}]

ReinvestEvents ==
    [Action : {"Reinvest Shares"}, Date : {2}, Symbol : {"VTI"},
     Quantity : {"1"}, Price : {20}, Fees : {0}]

LotSellEvents ==
    [Action : {"Sell"}, Date : {2, 732}, Symbol : Symbols,
     Quantity : {"0", "2"}, Price : SellPrices, Fees : SellFees]

LotEvents == LotBuyEvents \cup ReinvestEvents \cup LotSellEvents

\* mutant: the inventory is kept on the parser from one call to the next
StaleLots == lots_by_symbol

\* lots_by_symbol = defaultdict(list), a local of parse()
FreshLots == [s \in Symbols |-> <<>>]

\* the arguments of parse(), before the call
ParseInit ==
    /\ transactions \in BoundedSeq(BrokerageTransactions, MaxEvents)
    /\ start_date \in StartDates
    /\ pc = "start"
    /\ sorted_txns = <<>>
    /\ idx = 1
    /\ lots_by_symbol = [s \in Symbols |-> <<>>]
    /\ sale_transactions = <<>>

\* parse(): the lines before the loop
ParseStart ==
    /\ pc = "start"
    /\ sale_transactions' = <<>>
    /\ lots_by_symbol' = FreshLots
    /\ sorted_txns' = SortedByDate(transactions)
    /\ idx' = 1
    /\ pc' = "loop"
    /\ UNCHANGED <<transactions, start_date>>

InLoop == pc = "loop" /\ idx <= Len(sorted_txns)

\* one iteration that ends in `continue` or matches no branch
SkipTxn ==
    /\ InLoop
    /\ LET txn == sorted_txns[idx]
       IN  \/ txn.Symbol = ""
           \/ txn.Quantity = ""
           \/ txn.Action \notin {"Buy", "Reinvest Shares", "Sell"}
    /\ idx' = idx + 1
    /\ UNCHANGED <<transactions, start_date, pc, sorted_txns,
                   lots_by_symbol, sale_transactions>>

\* one iteration with action in ("Buy", "Reinvest Shares")
AddLot ==
    /\ InLoop
    /\ LET txn == sorted_txns[idx]
       IN  /\ txn.Symbol # ""
           /\ txn.Quantity # ""
           /\ txn.Action \in {"Buy", "Reinvest Shares"}
           /\ lots_by_symbol' =
                [lots_by_symbol EXCEPT ![txn.Symbol] =
                    Append(@, StockLot(txn.Date, txn.Symbol,
                                       Float(txn.Quantity), txn.Price))]
    /\ idx' = idx + 1
    /\ UNCHANGED <<transactions, start_date, pc, sorted_txns, sale_transactions>>

\* one iteration with action == "Sell" and sale_date < start_date
ProcessSaleBeforeStart ==
    /\ InLoop
    /\ LET txn == sorted_txns[idx]
       IN  /\ txn.Symbol # ""
           /\ txn.Quantity # ""
           /\ txn.Action = "Sell"
           /\ txn.Date < start_date
           /\ lots_by_symbol' =
                [lots_by_symbol EXCEPT ![txn.Symbol] =
                    ConsumeLots(@, 1, Float(txn.Quantity))]
    /\ idx' = idx + 1
    /\ UNCHANGED <<transactions, start_date, pc, sorted_txns, sale_transactions>>

\* one iteration with action == "Sell" and sale_date >= start_date
ProcessSale ==
    /\ InLoop
    /\ LET txn == sorted_txns[idx]
       IN  /\ txn.Symbol # ""
           /\ txn.Quantity # ""
           /\ txn.Action = "Sell"
           /\ ~(txn.Date < start_date)
           /\ sale_transactions' =
                sale_transactions \o
                ProcessSaleRecords(txn, lots_by_symbol[txn.Symbol])
           /\ lots_by_symbol' =
                [lots_by_symbol EXCEPT ![txn.Symbol] = ProcessSaleLots(txn, @)]
    /\ idx' = idx + 1
    /\ UNCHANGED <<transactions, start_date, pc, sorted_txns>>

\* return sale_transactions
ParseReturn ==
    /\ pc = "loop"
    /\ idx > Len(sorted_txns)
    /\ pc' = "done"
    /\ UNCHANGED <<transactions, start_date, sorted_txns, idx,
                   lots_by_symbol, sale_transactions>>

\* the arguments of parse() for an export of two symbols
LotsInit ==
    /\ transactions \in BoundedSeq(LotEvents, MaxEvents)
    /\ start_date \in StartDates
    /\ pc = "start"
    /\ sorted_txns = <<>>
    /\ idx = 1
    /\ lots_by_symbol = [s \in Symbols |-> <<>>]
    /\ sale_transactions = <<>>

\* the same parser is given the same export again: a new call of parse(),
\* what the call before left behind still in memory
ParseAgain ==
    /\ pc = "done"
    /\ pc' = "start"
    /\ UNCHANGED <<transactions, start_date, sorted_txns, idx,
                   lots_by_symbol, sale_transactions>>

----------------------------------------------------------------------------
(* capital_gains/parsers/schwab.py: SchwabEACParser                        *)
(* A transaction is the dict of the equity-award export: its dates and     *)
(* amounts are the strings of the export, converted by parse_date,         *)
(* parse_currency and int().  A key the export leaves out reads as "".     *)

\* most lot details of one sale
MaxDetails == 2

\* most transactions of one export
MaxSales == 1

\* parse_date: the day number of a "%m/%d/%Y" string, 01/01/2023 being day 1
ParseDate(date_str) ==
    CASE date_str = "01/01/2023" -> 1
      [] date_str = "01/02/2023" -> 2
      [] date_str = "12/31/2024" -> 731
      [] date_str = "01/01/2025" -> 732

\* parse_currency: "$", "," and "-" removed, "" is 0
ParseCurrency(value) ==
    CASE value = "" -> 0
      [] value = "$0.00" -> 0
      [] value = "$6.00" -> 6
      [] value = "-$6.00" -> 6
      [] value = "$10.00" -> 10
      [] value = "$20.00" -> 20
      [] value = "$30.00" -> 30
      [] value = "$60.00" -> 60

\* int(details.get("Shares", 0))
IntShares(shares_str) ==
    CASE shares_str = "0" -> 0
      [] shares_str = "1" -> 1
      [] shares_str = "2" -> 2

\* the "Details" of one lot of a sale
EacDetail(type, shares, gross, vest_date, purchase_date) ==
    [Type |-> type, Shares |-> shares, SalePrice |-> "$30.00",
     GrossProceeds |-> gross,
     VestDate |-> vest_date,
     VestFairMarketValue |-> IF type = "RS" THEN "$10.00" ELSE "",
     PurchaseDate |-> purchase_date,
     PurchaseFairMarketValue |-> IF type = "ESPP" THEN "$20.00" ELSE "",
     GrantId |-> IF type = "RS" THEN "G1" ELSE "None"]

EacDetails ==
    { EacDetail("RS", "1", "$30.00", "01/01/2023", ""),
      EacDetail("ESPP", "2", "$60.00", "", "01/01/2023"),
      EacDetail("RS", "0", "$0.00", "01/01/2023", ""),
      EacDetail("RS", "1", "$30.00", "", ""),
      EacDetail("ESPP", "1", "$30.00", "", ""),
      EacDetail("DO", "1", "$30.00", "", "") }

EacSaleDates == {"01/02/2023", "12/31/2024", "01/01/2025"}

EacStartDates == {731}

EacSales ==
    [Action : {"Sale"}, Date : EacSaleDates, Symbol : OneSymbol,
     FeesAndCommissions : {"$6.00"},
     TransactionDetails : BoundedSeq(EacDetails, MaxDetails)]

\* a deposit of vested shares: no fees, no lot details
EacOthers ==
    [Action : {"Deposit"}, Date : {"01/01/2025"}, Symbol : OneSymbol,
     FeesAndCommissions : {""}, TransactionDetails : {<<>>}]

EacTransactions == EacSales \cup EacOthers

\* sum(int(dw["Details"]["Shares"]) for dw in txn["TransactionDetails"])
RECURSIVE TotalSharesInTxn(_, _)
TotalSharesInTxn(details, k) ==
    IF k = 0 THEN 0
    ELSE IntShares(details[k].Shares) + TotalSharesInTxn(details, k - 1)

\* every lot charged the whole fee of the sale
EacFeesForLotWhole(total_fees_usd, shares, total_shares_in_txn) ==
    IntRat(total_fees_usd)

\* fees_for_lot of SchwabEACParser.parse
EacFeesForLot(total_fees_usd, shares, total_shares_in_txn) ==
    IF total_shares_in_txn > 0
    THEN Rat(total_fees_usd * shares, total_shares_in_txn)
    ELSE IntRat(0)

\* the SaleTransaction(...) call of _create_transaction
EacSaleTransaction(details, stock_type, sale_date, symbol, shares, sale_price, gross_proceeds, fees, acquisition_date, acquisition_price) ==
    [sale_date |-> sale_date,
     acquisition_date |-> acquisition_date,
     stock_type |-> stock_type,
     symbol |-> symbol,
     shares |-> shares,
     sale_price_usd |-> sale_price,
     acquisition_price_usd |-> acquisition_price,
     gross_proceeds_usd |-> gross_proceeds,
     grant_id |-> details.GrantId,
     source |-> "EAC",
     fees_and_commissions_usd |-> fees,
     holding_period_days |-> sale_date - acquisition_date,
     is_long_term |-> IsLongTerm(sale_date - acquisition_date)]

\* _create_transaction: <<the record>>, or <<>> where the source returns None
CreateTransaction(details, stock_type, sale_date, symbol, shares, sale_price, gross_proceeds, fees) ==
    IF stock_type = "RS"
    THEN IF details.VestDate = ""
         THEN <<>>
         ELSE <<EacSaleTransaction(details, stock_type, sale_date, symbol,
                    shares, sale_price, gross_proceeds, fees,
                    ParseDate(details.VestDate),
                    ParseCurrency(details.VestFairMarketValue))>>
    ELSE IF stock_type = "ESPP"
    THEN IF details.PurchaseDate = ""
         THEN <<>>
         ELSE <<EacSaleTransaction(details, stock_type, sale_date, symbol,
                    shares, sale_price, gross_proceeds, fees,
                    ParseDate(details.PurchaseDate),
                    ParseCurrency(details.PurchaseFairMarketValue))>>
    ELSE <<>>

\* the loop body without "if shares == 0: continue"
EacDetailRecordsKeepingZero(txn, details) ==
    LET shares == IntShares(details.Shares)
        all == txn.TransactionDetails
    IN  CreateTransaction(details, details.Type, ParseDate(txn.Date),
                txn.Symbol, shares,
                ParseCurrency(details.SalePrice),
                ParseCurrency(details.GrossProceeds),
                EacFeesForLot(ParseCurrency(txn.FeesAndCommissions), shares,
                              TotalSharesInTxn(all, Len(all))))

\* the body of "for detail_wrapper in ...": what one lot detail appends
EacDetailRecords(txn, details) ==
    LET shares == IntShares(details.Shares)
        all == txn.TransactionDetails
    IN  IF shares = 0
        THEN <<>>
        ELSE CreateTransaction(details, details.Type, ParseDate(txn.Date),
                txn.Symbol, shares,
                ParseCurrency(details.SalePrice),
                ParseCurrency(details.GrossProceeds),
                EacFeesForLot(ParseCurrency(txn.FeesAndCommissions), shares,
                              TotalSharesInTxn(all, Len(all))))

\* the loop over the first k lot details of one sale
RECURSIVE EacSaleRecords(_, _)
EacSaleRecords(txn, k) ==
    IF k = 0 THEN <<>>
    ELSE EacSaleRecords(txn, k - 1)
            \o EacDetailRecords(txn, txn.TransactionDetails[k])

\* the arguments of SchwabEACParser.parse and its empty sale_transactions
EacInit ==
    /\ eac_transactions \in BoundedSeq(EacTransactions, MaxSales)
    /\ eac_start_date \in EacStartDates
    /\ eac_pc = "loop"
    /\ eac_idx = 1
    /\ eac_sale_transactions = <<>>

EacInLoop == eac_pc = "loop" /\ eac_idx <= Len(eac_transactions)

\* one iteration with txn.get("Action") != "Sale"
EacSkipAction ==
    /\ EacInLoop
    /\ eac_transactions[eac_idx].Action # "Sale"
    /\ eac_idx' = eac_idx + 1
    /\ UNCHANGED <<eac_transactions, eac_start_date, eac_pc,
                   eac_sale_transactions>>

\* one iteration with a Sale of sale_date < start_date
EacSkipBeforeStart ==
    /\ EacInLoop
    /\ eac_transactions[eac_idx].Action = "Sale"
    /\ ParseDate(eac_transactions[eac_idx].Date) < eac_start_date
    /\ eac_idx' = eac_idx + 1
    /\ UNCHANGED <<eac_transactions, eac_start_date, eac_pc,
                   eac_sale_transactions>>

\* one iteration with a Sale of sale_date >= start_date
EacProcessSale ==
    /\ EacInLoop
    /\ LET txn == eac_transactions[eac_idx]
       IN  /\ txn.Action = "Sale"
           /\ ~(ParseDate(txn.Date) < eac_start_date)
           /\ eac_sale_transactions' = eac_sale_transactions
                    \o EacSaleRecords(txn, Len(txn.TransactionDetails))
    /\ eac_idx' = eac_idx + 1
    /\ UNCHANGED <<eac_transactions, eac_start_date, eac_pc>>

\* return sale_transactions
EacParseReturn ==
    /\ eac_pc = "loop"
    /\ eac_idx > Len(eac_transactions)
    /\ eac_pc' = "done"
    /\ UNCHANGED <<eac_transactions, eac_start_date, eac_idx,
                   eac_sale_transactions>>

----------------------------------------------------------------------------
(* capital_gains/exchange_rates.py: ExchangeRateService                    *)
(* A date is its day number, 2023-01-01 being day 1, and stands for its    *)
(* "%Y-%m-%d" string where the source keys a dict by that string: one      *)
(* string per day.  A rate is an exact rational.  A dict is a function on  *)
(* the set of its keys.                                                    *)

IsLeap(y) == y % 4 = 0 /\ (y % 100 # 0 \/ y % 400 = 0)

DaysInYear(y) == IF IsLeap(y) THEN 366 ELSE 365

DaysInMonth(m, y) ==
    IF m = 2 THEN (IF IsLeap(y) THEN 29 ELSE 28)
    ELSE IF m \in {4, 6, 9, 11} THEN 30 ELSE 31

\* date.year and the day of that year, counting the years from y
RECURSIVE YearAndDay(_, _)
YearAndDay(d, y) ==
    IF d <= DaysInYear(y) THEN [year |-> y, day |-> d]
    ELSE YearAndDay(d - DaysInYear(y), y + 1)

\* date.year
Year(date) == YearAndDay(date, 2023).year

\* the month of the day_of_year-th day of year y, counting the months from m
RECURSIVE MonthFrom(_, _, _)
MonthFrom(day_of_year, m, y) ==
    IF day_of_year <= DaysInMonth(m, y) THEN m
    ELSE MonthFrom(day_of_year - DaysInMonth(m, y), m + 1, y)

\* date.month
Month(date) ==
    LET yd == YearAndDay(date, 2023) IN MonthFrom(yd.day, 1, yd.year)

\* {}: the dict with no key
EmptyDict == [d \in {} |-> IntRat(0)]

\* dict[key] = value
DictSet(dict, key, value) ==
    [d \in DOMAIN dict \cup {key} |-> IF d = key THEN value ELSE dict[d]]

\* ExchangeRateService.APPROXIMATE_RATES, keyed by <<year, quarter>>
APPROXIMATE_RATES ==
    [k \in {2022, 2023, 2024, 2025} \X {1, 2, 3, 4} |->
        CASE k = <<2022, 1>> -> Rat(745, 10) [] k = <<2022, 2>> -> Rat(765, 10)
          [] k = <<2022, 3>> -> Rat(795, 10) [] k = <<2022, 4>> -> Rat(815, 10)
          [] k = <<2023, 1>> -> Rat(825, 10) [] k = <<2023, 2>> -> Rat(820, 10)
          [] k = <<2023, 3>> -> Rat(830, 10) [] k = <<2023, 4>> -> Rat(830, 10)
          [] k = <<2024, 1>> -> Rat(830, 10) [] k = <<2024, 2>> -> Rat(835, 10)
          [] k = <<2024, 3>> -> Rat(835, 10) [] k = <<2024, 4>> -> Rat(840, 10)
          [] k = <<2025, 1>> -> Rat(855, 10) [] k = <<2025, 2>> -> Rat(850, 10)
          [] k = <<2025, 3>> -> Rat(840, 10) [] k = <<2025, 4>> -> Rat(845, 10)]

\* ExchangeRateService.DEFAULT_RATE
DEFAULT_RATE == Rat(845, 10)

\* _get_approximate_rate with .get(key) and 0.0 for None
GetApproximateRateOrZero(date) ==
    LET quarter == (Month(date) - 1) \div 3 + 1
        key == <<Year(date), quarter>>
    IN  IF key \in DOMAIN APPROXIMATE_RATES
        THEN APPROXIMATE_RATES[key]
        ELSE IntRat(0)

\* _get_approximate_rate
GetApproximateRate(date) ==
    LET quarter == (Month(date) - 1) \div 3 + 1
        key == <<Year(date), quarter>>
    IN  IF key \in DOMAIN APPROXIMATE_RATES
        THEN APPROXIMATE_RATES[key]
        ELSE DEFAULT_RATE

\* "for days_forward in range(days_forward, 8)": the first date found, or 0
RECURSIVE NextAvailable(_, _, _)
NextAvailable(table, date, days_forward) ==
    IF days_forward >= 8 THEN 0
    ELSE IF date + days_forward \in DOMAIN table THEN date + days_forward
    ELSE NextAvailable(table, date, days_forward + 1)

\* "for days_back in range(days_back, 8)": the first date found, or 0
RECURSIVE PreviousAvailable(_, _, _)
PreviousAvailable(table, date, days_back) ==
    IF days_back >= 8 THEN 0
    ELSE IF date - days_back \in DOMAIN table THEN date - days_back
    ELSE PreviousAvailable(table, date, days_back + 1)

\* get_rate looking back before it looks forward
ResolveRateBackwardFirst(table, date, use_sbi) ==
    IF use_sbi /\ DOMAIN table # {}
    THEN IF date \in DOMAIN table THEN table[date]
         ELSE IF PreviousAvailable(table, date, 1) # 0
              THEN table[PreviousAvailable(table, date, 1)]
         ELSE IF NextAvailable(table, date, 1) # 0
              THEN table[NextAvailable(table, date, 1)]
         ELSE GetApproximateRate(date)
    ELSE GetApproximateRate(date)

\* get_rate below the cache check: the rate it stores and returns
ResolveRate(table, date, use_sbi) ==
    IF use_sbi /\ DOMAIN table # {}
    THEN IF date \in DOMAIN table THEN table[date]
         ELSE IF NextAvailable(table, date, 1) # 0
              THEN table[NextAvailable(table, date, 1)]
         ELSE IF PreviousAvailable(table, date, 1) # 0
              THEN table[PreviousAvailable(table, date, 1)]
         ELSE GetApproximateRate(date)
    ELSE GetApproximateRate(date)

\* get_rate without its cache check: every call resolves anew
GetRateOfUncached(cch, table, date, use_sbi) ==
    [rate |-> ResolveRate(table, date, use_sbi),
     cache |-> DictSet(cch, date, ResolveRate(table, date, use_sbi))]

\* get_rate: the rate returned and the cache left
GetRateOf(cch, table, date, use_sbi) ==
    IF date \in DOMAIN cch
    THEN [rate |-> cch[date], cache |-> cch]
    ELSE [rate |-> ResolveRate(table, date, use_sbi),
          cache |-> DictSet(cch, date, ResolveRate(table, date, use_sbi))]

\* the keys of a dict below bound, in ascending order
RECURSIVE SortedKeys(_)
SortedKeys(keys) ==
    IF keys = {} THEN <<>>
    ELSE LET least == CHOOSE k \in keys : \A j \in keys : k <= j
         IN  <<least>> \o SortedKeys(keys \ {least})

\* json.dump of the rates cut to whole rupees
JsonDumpWholeRupees(dict) ==
    LET keys == SortedKeys(DOMAIN dict)
    IN  [i \in 1..Len(keys) |->
            [key |-> keys[i],
             value |-> IntRat(dict[keys[i]].n \div dict[keys[i]].d)]]

\* json.dump(dict, sort_keys=True): the text, a list of "key": value members
JsonDump(dict) ==
    LET keys == SortedKeys(DOMAIN dict)
    IN  [i \in 1..Len(keys) |-> [key |-> keys[i], value |-> dict[keys[i]]]]

\* json.load: the dict of the first k members of the text, a later member
\* of a key replacing an earlier one
RECURSIVE JsonLoadFirst(_, _)
JsonLoadFirst(text, k) ==
    IF k = 0 THEN EmptyDict
    ELSE DictSet(JsonLoadFirst(text, k - 1), text[k].key, text[k].value)

JsonLoad(text) == JsonLoadFirst(text, Len(text))

\* the dates get_rate is asked for: 2025-03-24, 2025-04-01 and 2026-01-05
QueryDates == {814, 822, 1101}

\* the dates a published table may hold: 8, 7 and 1 day either side of
\* 2025-04-01, and that day
TableDates == {814, 815, 821, 822, 823, 829, 830}

\* the rate published for a date: 86.01 on 2025-03-24 and 0.01 more each day
PublishedRate(date) == Rat(8601 + date - 814, 100)

\* the tables a rates file may hold; the empty one is a file of "{}"
PublishedTables ==
    {[d \in dates |-> PublishedRate(d)] : dates \in SUBSET TableDates}

\* a file that does not exist
NoFile == [exists |-> FALSE, text |-> <<>>]

\* a file of JSON text
FileOf(text) == [exists |-> TRUE, text |-> text]

\* no call yet
NoCall == [op |-> "none", date |-> 0, use_sbi |-> FALSE, result |-> IntRat(0)]

\* ExchangeRateService() next to a rates file
RatesInit ==
    /\ cache = EmptyDict
    /\ sbi_rates = EmptyDict
    /\ rate_file \in {NoFile} \cup {FileOf(JsonDump(t)) : t \in PublishedTables}
    /\ call = NoCall

\* ExchangeRateService(): a fresh service replaces the one in use
NewService ==
    /\ cache' = EmptyDict
    /\ sbi_rates' = EmptyDict
    /\ call' = [NoCall EXCEPT !.op = "__init__"]
    /\ UNCHANGED rate_file

\* load_sbi_rates(filepath) where the file exists
LoadSbiRates ==
    /\ rate_file.exists
    /\ sbi_rates' = JsonLoad(rate_file.text)
    /\ call' = [NoCall EXCEPT !.op = "load_sbi_rates"]
    /\ UNCHANGED <<cache, rate_file>>

\* load_sbi_rates(filepath) where the file does not exist: returns False
LoadSbiRatesMissing ==
    /\ ~rate_file.exists
    /\ call' = [NoCall EXCEPT !.op = "load_sbi_rates"]
    /\ UNCHANGED <<cache, sbi_rates, rate_file>>

\* get_rate(date, use_sbi)
GetRate(date, use_sbi) ==
    LET got == GetRateOf(cache, sbi_rates, date, use_sbi)
    IN  /\ cache' = got.cache
        /\ call' = [op |-> "get_rate", date |-> date, use_sbi |-> use_sbi,
                    result |-> got.rate]
        /\ UNCHANGED <<sbi_rates, rate_file>>

\* save_cache_to_file(filepath)
SaveCacheToFile ==
    /\ rate_file' = FileOf(JsonDump(cache))
    /\ call' = [NoCall EXCEPT !.op = "save_cache_to_file"]
    /\ UNCHANGED <<cache, sbi_rates>>

\* clear_cache()
ClearCache ==
    /\ cache' = EmptyDict
    /\ call' = [NoCall EXCEPT !.op = "clear_cache"]
    /\ UNCHANGED <<sbi_rates, rate_file>>

----------------------------------------------------------------------------
(* capital_gains/calculator.py: CapitalGainsCalculator                     *)
(* The calculator works on the ExchangeRateService above.  Prices and      *)
(* share counts of the sales are whole, fees and everything computed from  *)
(* a rate are rationals.                                                   *)

\* SaleTransaction(...) as a parser leaves it: the calculated fields at 0.0
SaleTransaction(sale_date, acquisition_date, shares, sale_price_usd, acquisition_price_usd, fees_and_commissions_usd) ==
    [sale_date |-> sale_date,
     acquisition_date |-> acquisition_date,
     shares |-> shares,
     sale_price_usd |-> sale_price_usd,
     acquisition_price_usd |-> acquisition_price_usd,
     fees_and_commissions_usd |-> fees_and_commissions_usd,
     fees_and_commissions_inr |-> IntRat(0),
     sale_price_inr |-> IntRat(0),
     acquisition_price_inr |-> IntRat(0),
     sale_exchange_rate |-> IntRat(0),
     acquisition_exchange_rate |-> IntRat(0),
     capital_gain_usd |-> IntRat(0),
     capital_gain_inr |-> IntRat(0)]

\* sales of two shares at $30 with $3 of fees, acquired at $10 or $40 on
\* 2025-03-24 or 2025-04-01 and sold on 2025-04-01 or 2026-01-05
CalcTransactionInputs ==
    {SaleTransaction(sd, ad, 2, 30, ap, IntRat(3)) :
        sd \in {822, 1101}, ad \in {814, 822}, ap \in {10, 40}}

\* the tables of the rates files the calculator may be pointed at
CalcTables ==
    {[d \in dates |-> PublishedRate(d)] : dates \in SUBSET {814, 823}}

CalcFiles == {NoFile} \cup {FileOf(JsonDump(t)) : t \in CalcTables}

\* the dates of the first k transactions
RECURSIVE DatesNeeded(_, _)
DatesNeeded(txns, k) ==
    IF k = 0 THEN {}
    ELSE DatesNeeded(txns, k - 1)
            \cup {txns[k].sale_date, txns[k].acquisition_date}

\* "for date in sorted(dates_needed): get_rate(date, use_sbi)": the cache left
RECURSIVE FetchRates(_, _, _, _)
FetchRates(cch, table, dates, use_sbi) ==
    IF dates = <<>> THEN cch
    ELSE FetchRates(GetRateOf(cch, table, Head(dates), use_sbi).cache,
                    table, Tail(dates), use_sbi)

\* fees_and_commissions_inr at the rate of the acquisition date
FeesInrAtAcquisitionRate(fees_usd, sale_rate, acq_rate) ==
    RMul(fees_usd, acq_rate)

\* txn.fees_and_commissions_inr = txn.fees_and_commissions_usd * sale_rate
FeesInr(fees_usd, sale_rate, acq_rate) == RMul(fees_usd, sale_rate)

\* _calculate_transaction_gains below the two get_rate calls
TransactionGains(txn, sale_rate, acq_rate) ==
    LET sale_price_inr == RMul(IntRat(txn.sale_price_usd), sale_rate)
        acquisition_price_inr == RMul(IntRat(txn.acquisition_price_usd), acq_rate)
        fees_inr == FeesInr(txn.fees_and_commissions_usd, sale_rate, acq_rate)
        total_sale_inr == RMul(sale_price_inr, IntRat(txn.shares))
        total_acquisition_inr == RMul(acquisition_price_inr, IntRat(txn.shares))
    IN  [txn EXCEPT
            !.sale_exchange_rate = sale_rate,
            !.acquisition_exchange_rate = acq_rate,
            !.sale_price_inr = sale_price_inr,
            !.acquisition_price_inr = acquisition_price_inr,
            !.fees_and_commissions_inr = fees_inr,
            !.capital_gain_usd =
                RSub(IntRat((txn.sale_price_usd - txn.acquisition_price_usd)
                                * txn.shares),
                     txn.fees_and_commissions_usd),
            !.capital_gain_inr =
                RSub(RSub(total_sale_inr, total_acquisition_inr), fees_inr)]

\* "for txn in transactions: self._calculate_transaction_gains(txn, use_sbi)"
\* over the first k transactions: the list, the cache and the last call
RECURSIVE CalculateGains(_, _, _, _, _)
CalculateGains(txns, k, cch, table, use_sbi) ==
    IF k = 0 THEN [transactions |-> txns, cache |-> cch, call |-> NoCall]
    ELSE LET before == CalculateGains(txns, k - 1, cch, table, use_sbi)
             sale == GetRateOf(before.cache, table,
                               txns[k].sale_date, use_sbi)
             acq == GetRateOf(sale.cache, table,
                              txns[k].acquisition_date, use_sbi)
         IN  [transactions |->
                [before.transactions EXCEPT
                    ![k] = TransactionGains(txns[k], sale.rate, acq.rate)],
              cache |-> acq.cache,
              call |-> [op |-> "get_rate", date |-> txns[k].acquisition_date,
                        use_sbi |-> use_sbi, result |-> acq.rate]]

\* CapitalGainsCalculator(service) and the arguments of calculate(); the
\* service may come with a table already set
CalcInit ==
    /\ cache = EmptyDict
    /\ sbi_rates \in CalcTables
    /\ rate_file \in CalcFiles
    /\ call = NoCall
    /\ calc_transactions \in BoundedSeq(CalcTransactionInputs, MaxTxns)
    /\ calc_use_sbi \in BOOLEAN
    /\ calc_sbi_rates_file \in BOOLEAN
    /\ calc_pc = "idle"

\* calculate(transactions, use_sbi, sbi_rates_file) with no transaction
CalcCalculateNothing ==
    /\ calc_transactions = <<>>
    /\ calc_pc' = "done"
    /\ UNCHANGED <<cache, sbi_rates, rate_file, call,
                   calc_transactions, calc_use_sbi, calc_sbi_rates_file>>

\* calculate(transactions, use_sbi, sbi_rates_file): default_file is the
\* file at the default location, read when the given path does not exist
CalcCalculate(default_file) ==
    /\ calc_transactions # <<>>
    /\ LET load == calc_sbi_rates_file /\ calc_use_sbi
           file == IF rate_file.exists THEN rate_file ELSE default_file
           table == IF load /\ file.exists
                    THEN JsonLoad(file.text)
                    ELSE sbi_rates
           dates == SortedKeys(DatesNeeded(calc_transactions,
                                           Len(calc_transactions)))
           fetched == FetchRates(cache, table, dates, calc_use_sbi)
           done == CalculateGains(calc_transactions, Len(calc_transactions),
                                  fetched, table, calc_use_sbi)
       IN  /\ sbi_rates' = table
           /\ cache' = done.cache
           /\ call' = done.call
           /\ calc_transactions' = done.transactions
    /\ calc_pc' = "done"
    /\ UNCHANGED <<rate_file, calc_use_sbi, calc_sbi_rates_file>>

----------------------------------------------------------------------------
(* The two entry points: main() of main.py, stepped statement group by     *)
(* statement group, and the Calculate handler of app.py.  What a parser    *)
(* returns for a readable file is one record tagged with its source; the   *)
(* amounts play no part in the control flow.                               *)

\* the five input sources, in the order both entry points take them
SchwabSources == {"eac", "individual"}

IndianSources == {"stocks", "mf", "zerodha"}

Sources == SchwabSources \union IndianSources

\* files[s]: "" no path, "missing" a path to no file, "ok" a well-formed
\* file, "malformed" a file that is not JSON or not a workbook
FileStates == {"", "missing", "ok", "malformed"}

Args == [show_eula : BOOLEAN, reset_eula : BOOLEAN, start_date_ok : BOOLEAN]

NoArgs == [show_eula |-> FALSE, reset_eula |-> FALSE, start_date_ok |-> TRUE]

\* what input() gives: a line of text, or one of the two exceptions
Text(chars) == [kind |-> "text", text |-> chars]

Responses ==
    { Text(<<"A", "C", "C", "E", "P", "T">>),
      Text(<<"a", "c", "c", "e", "p", "t">>),
      Text(<<" ", "A", "c", "c", "e", "p", "t", " ">>),
      Text(<<"N", "O">>),
      Text(<<>>),
      Text(<<"A", "C", "C", "E", "P", "T", "E", "D">>),
      [kind |-> "KeyboardInterrupt", text |-> <<>>],
      [kind |-> "EOFError", text |-> <<>>] }

NoResponse == [kind |-> "", text |-> <<>>]

\* str.strip()
RECURSIVE LStrip(_)
LStrip(chars) ==
    IF chars # <<>> /\ Head(chars) = " " THEN LStrip(Tail(chars)) ELSE chars

RECURSIVE RStrip(_)
RStrip(chars) ==
    IF chars # <<>> /\ chars[Len(chars)] = " "
    THEN RStrip(SubSeq(chars, 1, Len(chars) - 1)) ELSE chars

Strip(chars) == RStrip(LStrip(chars))

\* str.upper(), on the letters the responses are written in
UpperChar(c) ==
    CASE c = "a" -> "A" [] c = "c" -> "C" [] c = "e" -> "E" [] c = "p" -> "P"
      [] c = "t" -> "T" [] c = "n" -> "N" [] c = "o" -> "O" [] c = "d" -> "D"
      [] OTHER -> c

Upper(chars) == [i \in 1..Len(chars) |-> UpperChar(chars[i])]

\* a prompt that takes every line of text for an acceptance
IsAcceptAnyText(r) == r.kind = "text"

\* prompt_eula_acceptance(): response.upper() == "ACCEPT" on the stripped
\* line; KeyboardInterrupt and EOFError are caught and are no acceptance
IsAccept(r) ==
    r.kind = "text" /\ Upper(Strip(r.text)) = <<"A", "C", "C", "E", "P", "T">>

NoTaxData == [computed |-> FALSE, transactions |-> <<>>, indian_gains |-> <<>>]

\* the records a Schwab parser returns for a well-formed export
SaleRecordsOf(s) == <<[source |-> s]>>

\* IndianGains(source=...): filled by a parse that succeeded, left at its
\* defaults by one whose workbook could not be read
IndianGainsOf(s, parsed) == [source |-> s, parsed |-> parsed]

MainIdle ==
    /\ eula_marker = FALSE
    /\ entry = ""
    /\ main_pc = "idle"
    /\ args = NoArgs
    /\ files = [s \in Sources |-> ""]
    /\ response = NoResponse
    /\ opened = {}
    /\ errors = {}
    /\ all_transactions = <<>>
    /\ main_indian_gains = <<>>
    /\ main_tax_data = NoTaxData

\* before the first run: any files on disk, the marker there or not
MainInit ==
    /\ eula_marker \in BOOLEAN
    /\ entry = ""
    /\ main_pc = "idle"
    /\ args = NoArgs
    /\ files \in [Sources -> FileStates]
    /\ response = NoResponse
    /\ opened = {}
    /\ errors = {}
    /\ all_transactions = <<>>
    /\ main_indian_gains = <<>>
    /\ main_tax_data = NoTaxData

Finished == main_pc \in {"idle", "returned", "no_data", "raised", "done"}

\* python main.py ...: a new process, the files and the marker as they are
RunMain(a) ==
    /\ Finished
    /\ entry' = "main"
    /\ args' = a
    /\ main_pc' = "args"
    /\ response' = NoResponse
    /\ opened' = {}
    /\ errors' = {}
    /\ all_transactions' = <<>>
    /\ main_indian_gains' = <<>>
    /\ main_tax_data' = NoTaxData
    /\ UNCHANGED <<eula_marker, files>>

MainShowEula ==
    /\ main_pc = "args"
    /\ args.show_eula
    /\ main_pc' = "returned"
    /\ UNCHANGED <<eula_marker, entry, args, files, response, opened, errors,
                   all_transactions, main_indian_gains, main_tax_data>>

MainResetEula ==
    /\ main_pc = "args"
    /\ ~args.show_eula
    /\ args.reset_eula
    /\ eula_marker' = FALSE
    /\ main_pc' = "returned"
    /\ UNCHANGED <<entry, args, files, response, opened, errors,
                   all_transactions, main_indian_gains, main_tax_data>>

\* if not check_eula_accepted(): ...
MainCheckEula ==
    /\ main_pc = "args"
    /\ ~args.show_eula
    /\ ~args.reset_eula
    /\ main_pc' = IF eula_marker THEN "setup" ELSE "prompt"
    /\ UNCHANGED <<eula_marker, entry, args, files, response, opened, errors,
                   all_transactions, main_indian_gains, main_tax_data>>

PromptEulaAcceptance(r) ==
    /\ main_pc = "prompt"
    /\ response' = r
    /\ IF IsAccept(r)
       THEN eula_marker' = TRUE /\ main_pc' = "setup"
       ELSE eula_marker' = eula_marker /\ main_pc' = "returned"
    /\ UNCHANGED <<entry, args, files, opened, errors,
                   all_transactions, main_indian_gains, main_tax_data>>

MainParseStartDate ==
    /\ main_pc = "setup"
    /\ main_pc' = IF args.start_date_ok THEN "eac" ELSE "returned"
    /\ UNCHANGED <<eula_marker, entry, args, files, response, opened, errors,
                   all_transactions, main_indian_gains, main_tax_data>>

\* main(): a Schwab export is read with json.load outside any try block,
\* so what json.load raises leaves main()
MainProcessSchwab(s, next) ==
    /\ main_pc = s
    /\ CASE files[s] = "ok" ->
                /\ opened' = opened \union {s}
                /\ all_transactions' = all_transactions \o SaleRecordsOf(s)
                /\ main_pc' = next
         [] files[s] = "malformed" ->
                /\ opened' = opened \union {s}
                /\ all_transactions' = all_transactions
                /\ main_pc' = "raised"
         [] OTHER ->
                /\ opened' = opened
                /\ all_transactions' = all_transactions
                /\ main_pc' = next
    /\ UNCHANGED <<eula_marker, entry, args, files, response, errors,
                   main_indian_gains, main_tax_data>>

MainProcessEac == MainProcessSchwab("eac", "individual")

MainProcessIndividual == MainProcessSchwab("individual", "stocks")

\* main(): indian_gains.append(parser.parse(path)); the parser catches what
\* load_workbook raises, prints the error and returns the empty result
MainProcessIndian(s, next) ==
    /\ main_pc = s
    /\ CASE files[s] = "ok" ->
                /\ opened' = opened \union {s}
                /\ errors' = errors
                /\ main_indian_gains' =
                        Append(main_indian_gains, IndianGainsOf(s, TRUE))
         [] files[s] = "malformed" ->
                /\ opened' = opened \union {s}
                /\ errors' = errors \union {s}
                /\ main_indian_gains' =
                        Append(main_indian_gains, IndianGainsOf(s, FALSE))
         [] OTHER ->
                /\ opened' = opened
                /\ errors' = errors
                /\ main_indian_gains' = main_indian_gains
    /\ main_pc' = next
    /\ UNCHANGED <<eula_marker, entry, args, files, response,
                   all_transactions, main_tax_data>>

MainProcessStocks == MainProcessIndian("stocks", "mf")

MainProcessMf == MainProcessIndian("mf", "zerodha")

MainProcessZerodha == MainProcessIndian("zerodha", "check")

\* if not all_transactions and not indian_gains: ... return
MainCheckData ==
    /\ main_pc = "check"
    /\ main_pc' = IF all_transactions = <<>> /\ main_indian_gains = <<>>
                  THEN "no_data" ELSE "calculate"
    /\ UNCHANGED <<eula_marker, entry, args, files, response, opened, errors,
                   all_transactions, main_indian_gains, main_tax_data>>

\* the gains, the reports and tax_calculator.calculate(...)
MainCalculate ==
    /\ main_pc = "calculate"
    /\ main_tax_data' = [computed |-> TRUE,
                         transactions |-> all_transactions,
                         indian_gains |-> main_indian_gains]
    /\ main_pc' = "done"
    /\ UNCHANGED <<eula_marker, entry, args, files, response, opened, errors,
                   all_transactions, main_indian_gains>>

\* app.py process_eac_file / process_individual_file: every exception is
\* caught, shown with st.error and answered with the empty list
AppProcessSchwab(upload, s) ==
    IF upload = "ok"
    THEN [records |-> SaleRecordsOf(s), errors |-> {}]
    ELSE IF upload = "malformed"
    THEN [records |-> <<>>, errors |-> {s}]
    ELSE [records |-> <<>>, errors |-> {}]

\* app.py process_indian_*_file: the parser's result, appended when truthy,
\* which an IndianGains always is
AppProcessIndian(upload, s) ==
    IF upload = "ok"
    THEN [gains |-> <<IndianGainsOf(s, TRUE)>>, errors |-> {}]
    ELSE IF upload = "malformed"
    THEN [gains |-> <<IndianGainsOf(s, FALSE)>>, errors |-> {s}]
    ELSE [gains |-> <<>>, errors |-> {}]

\* app.py main(), "if calculate_btn:" on the uploaded files
AppCalculate ==
    /\ Finished
    /\ \A s \in Sources : files[s] # "missing"
    /\ LET eac == AppProcessSchwab(files["eac"], "eac")
           ind == AppProcessSchwab(files["individual"], "individual")
           stocks == AppProcessIndian(files["stocks"], "stocks")
           mf == AppProcessIndian(files["mf"], "mf")
           zerodha == AppProcessIndian(files["zerodha"], "zerodha")
           txns == eac.records \o ind.records
           gains == stocks.gains \o mf.gains \o zerodha.gains
       IN  /\ opened' = {s \in Sources : files[s] # ""}
           /\ errors' = eac.errors \union ind.errors \union stocks.errors
                            \union mf.errors \union zerodha.errors
           /\ all_transactions' = txns
           /\ main_indian_gains' = gains
           /\ IF txns = <<>> /\ gains = <<>>
              THEN main_tax_data' = NoTaxData /\ main_pc' = "no_data"
              ELSE /\ main_tax_data' = [computed |-> TRUE,
                                        transactions |-> txns,
                                        indian_gains |-> gains]
                   /\ main_pc' = "done"
    /\ entry' = "app"
    /\ args' = NoArgs
    /\ response' = NoResponse
    /\ UNCHANGED <<eula_marker, files>>

----------------------------------------------------------------------------
(* Specifications.                                                         *)

\* the parser at rest, for the specification of the tax calculator
ParseIdle ==
    /\ transactions = <<>>
    /\ start_date = 0
    /\ pc = "idle"
    /\ sorted_txns = <<>>
    /\ idx = 1
    /\ lots_by_symbol = [s \in Symbols |-> <<>>]
    /\ sale_transactions = <<>>

\* the tax calculator at rest, for the specification of the parser
TaxIdle ==
    /\ rates = TaxRates
    /\ tax_transactions = <<>>
    /\ indian_gains = <<>>
    /\ taxes_paid = 0
    /\ tax_pc = "idle"
    /\ tax_data = TaxData

\* the equity-award parser at rest
EacIdle ==
    /\ eac_transactions = <<>>
    /\ eac_start_date = 0
    /\ eac_pc = "idle"
    /\ eac_idx = 1
    /\ eac_sale_transactions = <<>>

\* no exchange rate service in use
RatesIdle ==
    /\ cache = EmptyDict
    /\ sbi_rates = EmptyDict
    /\ rate_file = NoFile
    /\ call = NoCall

\* no calculation under way
CalcIdle ==
    /\ calc_transactions = <<>>
    /\ calc_use_sbi = TRUE
    /\ calc_sbi_rates_file = FALSE
    /\ calc_pc = "idle"

Init == ParseInit /\ TaxIdle /\ EacIdle /\ RatesIdle /\ CalcIdle /\ MainIdle

Next ==
    \/ ParseStart /\ UNCHANGED <<tax_vars, eac_vars, rate_vars, calc_vars, main_vars>>
    \/ SkipTxn /\ UNCHANGED <<tax_vars, eac_vars, rate_vars, calc_vars, main_vars>>
    \/ AddLot /\ UNCHANGED <<tax_vars, eac_vars, rate_vars, calc_vars, main_vars>>
    \/ ProcessSaleBeforeStart /\ UNCHANGED <<tax_vars, eac_vars, rate_vars, calc_vars, main_vars>>
    \/ ProcessSale /\ UNCHANGED <<tax_vars, eac_vars, rate_vars, calc_vars, main_vars>>
    \/ ParseReturn /\ UNCHANGED <<tax_vars, eac_vars, rate_vars, calc_vars, main_vars>>

\* SchwabIndividualParser.parse on one list of brokerage transactions
Spec == Init /\ [][Next]_vars

InitTax == TaxInit /\ ParseIdle /\ EacIdle /\ RatesIdle /\ CalcIdle /\ MainIdle

NextTax == Calculate /\ UNCHANGED <<parse_vars, eac_vars, rate_vars, calc_vars, main_vars>>

\* TaxCalculator.calculate on one pair of argument lists
SpecTax == InitTax /\ [][NextTax]_vars

InitTaxRates == TaxInitInjected /\ ParseIdle /\ EacIdle /\ RatesIdle /\ CalcIdle /\ MainIdle

NextTaxRates == Calculate /\ UNCHANGED <<parse_vars, eac_vars, rate_vars, calc_vars, main_vars>>

\* TaxCalculator.calculate of a calculator built with any rates
SpecTaxRates == InitTaxRates /\ [][NextTaxRates]_vars

InitEAC == EacInit /\ ParseIdle /\ TaxIdle /\ RatesIdle /\ CalcIdle /\ MainIdle

NextEAC ==
    \/ EacSkipAction /\ UNCHANGED <<tax_vars, parse_vars, rate_vars, calc_vars, main_vars>>
    \/ EacSkipBeforeStart /\ UNCHANGED <<tax_vars, parse_vars, rate_vars, calc_vars, main_vars>>
    \/ EacProcessSale /\ UNCHANGED <<tax_vars, parse_vars, rate_vars, calc_vars, main_vars>>
    \/ EacParseReturn /\ UNCHANGED <<tax_vars, parse_vars, rate_vars, calc_vars, main_vars>>

\* SchwabEACParser.parse on one export
SpecEAC == InitEAC /\ [][NextEAC]_vars

InitRates == RatesInit /\ ParseIdle /\ TaxIdle /\ EacIdle /\ CalcIdle /\ MainIdle

NextRates ==
    \/ NewService /\ UNCHANGED <<tax_vars, parse_vars, eac_vars, calc_vars, main_vars>>
    \/ LoadSbiRates /\ UNCHANGED <<tax_vars, parse_vars, eac_vars, calc_vars, main_vars>>
    \/ LoadSbiRatesMissing /\ UNCHANGED <<tax_vars, parse_vars, eac_vars, calc_vars, main_vars>>
    \/ \E date \in QueryDates, use_sbi \in BOOLEAN :
            GetRate(date, use_sbi) /\ UNCHANGED <<tax_vars, parse_vars, eac_vars, calc_vars, main_vars>>
    \/ SaveCacheToFile /\ UNCHANGED <<tax_vars, parse_vars, eac_vars, calc_vars, main_vars>>
    \/ ClearCache /\ UNCHANGED <<tax_vars, parse_vars, eac_vars, calc_vars, main_vars>>

\* one ExchangeRateService after another, and the rates file they share
SpecRates == InitRates /\ [][NextRates]_vars

InitCalc == CalcInit /\ ParseIdle /\ TaxIdle /\ EacIdle /\ MainIdle

NextCalc ==
    \/ CalcCalculateNothing /\ UNCHANGED <<tax_vars, parse_vars, eac_vars, main_vars>>
    \/ \E default_file \in CalcFiles :
            CalcCalculate(default_file) /\ UNCHANGED <<tax_vars, parse_vars, eac_vars, main_vars>>

\* CapitalGainsCalculator.calculate on one list of sales
SpecCalc == InitCalc /\ [][NextCalc]_vars

InitMain == MainInit /\ ParseIdle /\ TaxIdle /\ EacIdle /\ RatesIdle /\ CalcIdle

NextMain ==
    \/ \E a \in Args :
            RunMain(a) /\ UNCHANGED <<tax_vars, parse_vars, eac_vars, rate_vars, calc_vars>>
    \/ MainShowEula /\ UNCHANGED <<tax_vars, parse_vars, eac_vars, rate_vars, calc_vars>>
    \/ MainResetEula /\ UNCHANGED <<tax_vars, parse_vars, eac_vars, rate_vars, calc_vars>>
    \/ MainCheckEula /\ UNCHANGED <<tax_vars, parse_vars, eac_vars, rate_vars, calc_vars>>
    \/ \E r \in Responses :
            PromptEulaAcceptance(r) /\ UNCHANGED <<tax_vars, parse_vars, eac_vars, rate_vars, calc_vars>>
    \/ MainParseStartDate /\ UNCHANGED <<tax_vars, parse_vars, eac_vars, rate_vars, calc_vars>>
    \/ MainProcessEac /\ UNCHANGED <<tax_vars, parse_vars, eac_vars, rate_vars, calc_vars>>
    \/ MainProcessIndividual /\ UNCHANGED <<tax_vars, parse_vars, eac_vars, rate_vars, calc_vars>>
    \/ MainProcessStocks /\ UNCHANGED <<tax_vars, parse_vars, eac_vars, rate_vars, calc_vars>>
    \/ MainProcessMf /\ UNCHANGED <<tax_vars, parse_vars, eac_vars, rate_vars, calc_vars>>
    \/ MainProcessZerodha /\ UNCHANGED <<tax_vars, parse_vars, eac_vars, rate_vars, calc_vars>>
    \/ MainCheckData /\ UNCHANGED <<tax_vars, parse_vars, eac_vars, rate_vars, calc_vars>>
    \/ MainCalculate /\ UNCHANGED <<tax_vars, parse_vars, eac_vars, rate_vars, calc_vars>>
    \/ AppCalculate /\ UNCHANGED <<tax_vars, parse_vars, eac_vars, rate_vars, calc_vars>>

\* runs of the command line program and of the web app's Calculate handler,
\* one after another on the same files
SpecMain == InitMain /\ [][NextMain]_vars

InitLots == LotsInit /\ TaxIdle /\ EacIdle /\ RatesIdle /\ CalcIdle /\ MainIdle

\* the export holds no event without symbol or quantity, none to skip
NextLots ==
    \/ ParseStart /\ UNCHANGED <<tax_vars, eac_vars, rate_vars, calc_vars, main_vars>>
    \/ AddLot /\ UNCHANGED <<tax_vars, eac_vars, rate_vars, calc_vars, main_vars>>
    \/ ProcessSaleBeforeStart /\ UNCHANGED <<tax_vars, eac_vars, rate_vars, calc_vars, main_vars>>
    \/ ProcessSale /\ UNCHANGED <<tax_vars, eac_vars, rate_vars, calc_vars, main_vars>>
    \/ ParseReturn /\ UNCHANGED <<tax_vars, eac_vars, rate_vars, calc_vars, main_vars>>
    \/ ParseAgain /\ UNCHANGED <<tax_vars, eac_vars, rate_vars, calc_vars, main_vars>>

\* SchwabIndividualParser.parse, called again and again on one export of
\* two symbols
SpecLots == InitLots /\ [][NextLots]_vars

InitSchwab == InitEAC \/ Init

NextSchwab == NextEAC \/ Next

\* one of the two Schwab parsers on one export
SpecSchwab == InitSchwab /\ [][NextSchwab]_vars


----------------------------------------------------------------------------
(* Quantities the properties of the FIFO matcher are stated in.            *)

IsBuy(txn) ==
    txn.Symbol # "" /\ txn.Quantity # "" /\ txn.Action \in {"Buy", "Reinvest Shares"}

IsSell(txn) == txn.Symbol # "" /\ txn.Quantity # "" /\ txn.Action = "Sell"

RECURSIVE SumShares(_)
SumShares(records) ==
    IF records = <<>> THEN 0 ELSE Head(records).shares + SumShares(Tail(records))

RECURSIVE SumRemaining(_)
SumRemaining(lots) ==
    IF lots = <<>> THEN 0 ELSE Head(lots).remaining + SumRemaining(Tail(lots))

RecordsOf(s) == SelectSeq(sale_transactions, LAMBDA r : r.symbol = s)

\* the quantities of the first k sorted transactions of symbol s that satisfy Sel
SumQuantity(s, k, Sel(_)) ==
    SumFirst([j \in 1..Len(sorted_txns) |->
                IF sorted_txns[j].Symbol = s /\ Sel(sorted_txns[j])
                THEN Float(sorted_txns[j].Quantity) ELSE 0], k)

BoughtUpTo(s, k) == SumQuantity(s, k, IsBuy)

SoldUpTo(s, k) == SumQuantity(s, k, IsSell)

SoldBeforeStart(s) ==
    SumQuantity(s, Len(sorted_txns), LAMBDA t : IsSell(t) /\ t.Date < start_date)

SoldFromStart(s) ==
    SumQuantity(s, Len(sorted_txns), LAMBDA t : IsSell(t) /\ t.Date >= start_date)

\* in processing order, the sells of s never exceed the buys of s so far
SellsNeverExceedBuys(s) ==
    \A k \in 1..Len(sorted_txns) : SoldUpTo(s, k) <= BoughtUpTo(s, k)

\* C1 as stated: after parse(), for a symbol whose sells never exceed its
\* cumulative buys, the shares of the emitted records plus the lots' final
\* remaining equal all Buy quantities minus all Sell quantities.
C1_SharesPlusRemainingIsBuysMinusSells ==
    pc = "done" =>
        \A s \in Symbols :
            SellsNeverExceedBuys(s) =>
                SumShares(RecordsOf(s)) + SumRemaining(lots_by_symbol[s])
                    = BoughtUpTo(s, Len(sorted_txns)) - SoldUpTo(s, Len(sorted_txns))

\* C1 amended: after parse(), for a symbol whose sells never exceed its
\* cumulative buys, the shares of the emitted records plus the lots' final
\* remaining equal all Buy quantities minus the quantities of the Sells dated
\* before the cutoff (the sells that emit no record); the emitted shares are
\* the quantities of the Sells on or after the cutoff.
C1_FifoConservation ==
    pc = "done" =>
        \A s \in Symbols :
            SellsNeverExceedBuys(s) =>
                /\ SumShares(RecordsOf(s)) + SumRemaining(lots_by_symbol[s])
                     = BoughtUpTo(s, Len(sorted_txns)) - SoldBeforeStart(s)
                /\ SumShares(RecordsOf(s)) = SoldFromStart(s)

\* a finished parse with a sell before the cutoff and a sell after it, both
\* covered by earlier buys
C1_Witness ==
    /\ pc = "done"
    /\ \E s \in Symbols :
        /\ SellsNeverExceedBuys(s)
        /\ SoldBeforeStart(s) > 0
        /\ SumShares(RecordsOf(s)) > 0


\* the symbol's lots before and after a step, and the records the step adds
NextTxn == sorted_txns[idx]

SellStepBeforeStart ==
    InLoop /\ IsSell(NextTxn) /\ NextTxn.Date < start_date /\ idx' = idx + 1

SellStepFromStart ==
    InLoop /\ IsSell(NextTxn) /\ NextTxn.Date >= start_date /\ idx' = idx + 1

NewRecords ==
    SubSeq(sale_transactions', Len(sale_transactions) + 1, Len(sale_transactions'))

\* the indices of the lots that lost shares between before and after, ascending
Touched(before, after) ==
    SelectSeq([j \in 1..Len(before) |-> j],
              LAMBDA j : after[j].remaining < before[j].remaining)

\* lots lose shares oldest first: a lot that lost shares leaves nothing in
\* the lots pushed before it
OldestFirst(before, after) ==
    /\ Len(after) = Len(before)
    /\ \A j \in 1..Len(before) :
        /\ after[j].remaining >= 0
        /\ after[j].remaining <= before[j].remaining
        /\ after[j].remaining < before[j].remaining =>
                \A i \in 1..(j - 1) : after[i].remaining = 0

\* push order is purchase-date order
SortedByPurchaseDate(lots) ==
    \A i, j \in 1..Len(lots) :
        i < j => lots[i].purchase_date <= lots[j].purchase_date

\* the records with shares are, in order, the lots that lost shares, each
\* with the lot's purchase date and price and the shares taken from it
OneRecordPerLotTouched(before, after, records) ==
    LET touched == Touched(before, after)
        withShares == SelectSeq(records, LAMBDA r : r.shares > 0)
    IN  /\ Len(withShares) = Len(touched)
        /\ \A k \in 1..Len(touched) :
            /\ withShares[k].acquisition_date = before[touched[k]].purchase_date
            /\ withShares[k].acquisition_price_usd = before[touched[k]].price
            /\ withShares[k].shares =
                 before[touched[k]].remaining - after[touched[k]].remaining

\* C2: a Sell consumes its symbol's lots oldest first (push order, which is
\* purchase-date order, ties in push order), and a Sell on or after the
\* cutoff emits one record per lot it took shares from, carrying the lot's
\* purchase date and price and the number of shares taken.
C2_FifoOrder ==
    [][(SellStepBeforeStart \/ SellStepFromStart) =>
        LET s == NextTxn.Symbol
        IN  /\ SortedByPurchaseDate(lots_by_symbol[s])
            /\ OldestFirst(lots_by_symbol[s], lots_by_symbol'[s])
            /\ SellStepFromStart =>
                OneRecordPerLotTouched(lots_by_symbol[s], lots_by_symbol'[s],
                                       NewRecords)]_vars

\* two lots of one purchase date and different prices; a sell took all of
\* the first and part of the second
C2_Witness ==
    /\ pc = "done"
    /\ Len(sale_transactions) = 2
    /\ \E s \in Symbols :
        LET lots == lots_by_symbol[s]
        IN  /\ Len(lots) = 2
            /\ lots[1].purchase_date = lots[2].purchase_date
            /\ lots[1].price # lots[2].price
            /\ lots[1].remaining = 0
            /\ lots[2].remaining > 0
            /\ lots[2].remaining < lots[2].quantity

\* C3: a Sell dated before the cutoff emits no record and takes its quantity
\* (as far as shares are left) from the oldest lots; a Sell on or after the
\* cutoff is matched against exactly what the earlier events left.
C3_SaleBeforeStartConsumesLots ==
    [][LET s == NextTxn.Symbol
           before == lots_by_symbol[s]
           after == lots_by_symbol'[s]
           quantity == Float(NextTxn.Quantity)
       IN  /\ SellStepBeforeStart =>
                /\ sale_transactions' = sale_transactions
                /\ OldestFirst(before, after)
                /\ SumRemaining(after) =
                     SumRemaining(before) - Min(quantity, SumRemaining(before))
           /\ SellStepFromStart =>
                /\ SumShares(NewRecords) = Min(quantity, SumRemaining(before))
                /\ OneRecordPerLotTouched(before, after, NewRecords)]_vars

\* a lot of 2, a sell of 1 before the cutoff, then a sell of 2 on or after
\* it that finds only the 1 share the first sell left
C3_Witness ==
    /\ pc = "done"
    /\ \E s \in Symbols :
        /\ BoughtUpTo(s, Len(sorted_txns)) = 2
        /\ SoldBeforeStart(s) = 1
        /\ SoldFromStart(s) = 2
        /\ Len(lots_by_symbol[s]) = 1
        /\ SumShares(RecordsOf(s)) = 1

\* a Sell is next whose quantity exceeds the shares its symbol's lots hold
OversellNext ==
    /\ InLoop
    /\ IsSell(NextTxn)
    /\ Float(NextTxn.Quantity) > SumRemaining(lots_by_symbol[NextTxn.Symbol])

\* C4: a Sell of more shares than its symbol's lots hold is processed (the
\* iteration is enabled); it adds no lot; on or after the cutoff its records
\* are exactly the open lots with all their remaining shares, so they sum to
\* the shares available and none has a fabricated cost; every lot of the
\* symbol is left at remaining 0.
C4_Oversell ==
    /\ [](OversellNext => ENABLED (ProcessSale \/ ProcessSaleBeforeStart))
    /\ [][(OversellNext /\ idx' = idx + 1) =>
            LET s == NextTxn.Symbol
                before == lots_by_symbol[s]
                after == lots_by_symbol'[s]
                open == SelectSeq(before, LAMBDA l : l.remaining > 0)
            IN  /\ Len(after) = Len(before)
                /\ \A j \in 1..Len(after) : after[j].remaining = 0
                /\ SellStepBeforeStart => NewRecords = <<>>
                /\ SellStepFromStart =>
                    /\ SumShares(NewRecords) = SumRemaining(before)
                    /\ Len(NewRecords) = Len(open)
                    /\ \A k \in 1..Len(open) :
                        /\ NewRecords[k].shares = open[k].remaining
                        /\ NewRecords[k].acquisition_price_usd = open[k].price
                        /\ NewRecords[k].acquisition_date = open[k].purchase_date]_vars

\* a sell of 2 on or after the cutoff met a single lot of 1
C4_Witness ==
    /\ pc = "done"
    /\ \E s \in Symbols :
        /\ BoughtUpTo(s, Len(sorted_txns)) = 1
        /\ SoldFromStart(s) = 2
        /\ SoldBeforeStart(s) = 0
        /\ Len(lots_by_symbol[s]) = 1
        /\ lots_by_symbol[s][1].remaining = 0
        /\ SumShares(RecordsOf(s)) = 1


----------------------------------------------------------------------------
(* Quantities the properties of the tax calculator are stated in.          *)

Calculated == tax_pc = "done"

Gain(x) == IF x > 0 THEN x ELSE 0

Loss(x) == IF x < 0 THEN 0 - x ELSE 0

\* the short-term loss and gains calculate() starts the set-off from
StcgLossIn == Loss(tax_data.schwab_stcg) + Loss(tax_data.indian_stcg)

ForeignStcgGainIn == Gain(tax_data.schwab_stcg)

IndianStcgGainIn == Gain(tax_data.indian_stcg)

\* the result carries the sums of its inputs
SumsOfInputs ==
    /\ tax_data.schwab_ltcg = SumCapitalGainInr(tax_transactions, TRUE)
    /\ tax_data.schwab_stcg = SumCapitalGainInr(tax_transactions, FALSE)
    /\ tax_data.indian_ltcg = SumLtcg(indian_gains)
    /\ tax_data.indian_stcg = SumStcg(indian_gains)

NoLossIn ==
    /\ tax_data.schwab_ltcg >= 0
    /\ tax_data.schwab_stcg >= 0
    /\ tax_data.indian_ltcg >= 0
    /\ tax_data.indian_stcg >= 0

\* C6: the exemption applies to Indian LTCG only: rebate_used =
\* min(max(indian_ltcg, 0), 125000); indian_ltcg_after_rebate =
\* max(0, indian_ltcg - 125000) for a gain and indian_ltcg for a loss or 0;
\* 0 <= rebate_used <= 125000; 125000 gives 125000 and 0, 50000 gives 50000
\* and 0; the foreign LTCG gain enters the set-off whole and, with no loss
\* anywhere, is taxable whole.
C6_LtcgExemption ==
    Calculated =>
        /\ SumsOfInputs
        /\ tax_data.rebate_used = Min(Max(tax_data.indian_ltcg, 0), 125000)
        /\ tax_data.indian_ltcg > 0 =>
                tax_data.indian_ltcg_after_rebate
                    = Max(0, tax_data.indian_ltcg - 125000)
        /\ tax_data.indian_ltcg <= 0 =>
                tax_data.indian_ltcg_after_rebate = tax_data.indian_ltcg
        /\ tax_data.rebate_used >= 0
        /\ tax_data.rebate_used <= 125000
        /\ tax_data.indian_ltcg = 125000 =>
                tax_data.rebate_used = 125000 /\ tax_data.indian_ltcg_after_rebate = 0
        /\ tax_data.indian_ltcg = 50000 =>
                tax_data.rebate_used = 50000 /\ tax_data.indian_ltcg_after_rebate = 0
        /\ tax_data.foreign_ltcg_gain = Gain(tax_data.schwab_ltcg)
        /\ NoLossIn =>
                /\ tax_data.foreign_ltcg_taxable = IntRat(tax_data.schwab_ltcg)
                /\ tax_data.indian_ltcg_taxable
                     = IntRat(tax_data.indian_ltcg - tax_data.rebate_used)

\* an Indian LTCG above the exemption next to a foreign LTCG gain
C6_Witness ==
    /\ Calculated
    /\ tax_data.indian_ltcg > 125000
    /\ tax_data.rebate_used = 125000
    /\ tax_data.indian_ltcg_after_rebate > 0
    /\ tax_data.schwab_ltcg > 0
    /\ NoLossIn

\* the LTCG gains the set-off starts from (after the exemption)
ForeignLtcgGainIn == Gain(tax_data.schwab_ltcg)

IndianLtcgGainIn == Gain(tax_data.indian_ltcg_after_rebate)

LtcgGainPool == ForeignLtcgGainIn + IndianLtcgGainIn

\* C7: net_ltcg, the LTCG gain pool less the two set-offs against it, is
\* split between foreign_ltcg_taxable and indian_ltcg_taxable in the ratio
\* foreign_ltcg_gain : indian_ltcg_gain, so the two sum to net_ltcg when the
\* pool is positive; when the pool is 0 both are 0.
C7_ProportionalSplit ==
    Calculated =>
        /\ tax_data.net_ltcg =
             LtcgGainPool - tax_data.stcg_loss_vs_ltcg - tax_data.ltcg_loss_vs_ltcg
        /\ LtcgGainPool > 0 =>
            /\ RAdd(tax_data.foreign_ltcg_taxable, tax_data.indian_ltcg_taxable)
                 = IntRat(tax_data.net_ltcg)
            /\ tax_data.foreign_ltcg_taxable
                 = RMul(IntRat(tax_data.net_ltcg), Rat(ForeignLtcgGainIn, LtcgGainPool))
            /\ tax_data.indian_ltcg_taxable
                 = RMul(IntRat(tax_data.net_ltcg), Rat(IndianLtcgGainIn, LtcgGainPool))
        /\ LtcgGainPool = 0 =>
            /\ tax_data.foreign_ltcg_taxable = IntRat(0)
            /\ tax_data.indian_ltcg_taxable = IntRat(0)

\* both LTCG gains positive and unequal, part of the pool set off
C7_Witness ==
    /\ Calculated
    /\ ForeignLtcgGainIn > 0
    /\ IndianLtcgGainIn > 0
    /\ ForeignLtcgGainIn # IndianLtcgGainIn
    /\ tax_data.net_ltcg > 0
    /\ tax_data.net_ltcg < LtcgGainPool

\* the pool is 0 with an LTCG loss among the inputs: the guarded division
C7_ZeroPoolReached ==
    /\ Calculated
    /\ LtcgGainPool = 0
    /\ tax_data.schwab_ltcg < 0

\* the arguments with every long-term figure replaced: the short-term
\* transactions followed by the long-term transactions lt, and every
\* IndianGains with ltcg w
OtherLongTermTxns(lt) ==
    SelectSeq(tax_transactions, LAMBDA t : ~t.is_long_term) \o lt

OtherLongTermGains(w) ==
    [k \in 1..Len(indian_gains) |-> [indian_gains[k] EXCEPT !.ltcg = w]]

LongTermOnly == [capital_gain_inr : TxnGainValues, is_long_term : {TRUE}]

\* the short-term part of a result
StcgPart(td) ==
    <<td.schwab_stcg, td.indian_stcg, td.foreign_stcg_taxable,
      td.indian_stcg_taxable, td.net_stcg, td.foreign_stcg_tax,
      td.indian_stcg_tax, td.stcg_tax>>

\* C8: the STCG taxable amounts, net_stcg and the STCG taxes of a result do
\* not depend on the long-term inputs: a run on arguments that differ from
\* this run's only in the long-term transactions, or only in the Indian
\* long-term gains, yields the same.
C8_StcgIndependentOfLtcg ==
    Calculated =>
        /\ \A lt \in BoundedSeq(LongTermOnly, 1) :
                StcgPart(TaxCalculate(OtherLongTermTxns(lt), indian_gains,
                                      taxes_paid, rates)) = StcgPart(tax_data)
        /\ \A w \in IndianLtcgValues :
                StcgPart(TaxCalculate(tax_transactions, OtherLongTermGains(w),
                                      taxes_paid, rates)) = StcgPart(tax_data)

\* a result with STCG to tax and a long-term loss that found no LTCG gain
C8_Witness ==
    /\ Calculated
    /\ tax_data.net_stcg > 0
    /\ tax_data.schwab_ltcg < 0
    /\ tax_data.indian_ltcg <= 0
    /\ tax_data.ltcg_loss_vs_ltcg = 0

\* C9: tax_liability = total_tax - taxes_paid with no floor: negative when
\* taxes_paid > total_tax, total_tax when taxes_paid = 0; the result's
\* taxes_paid is the argument.
C9_LiabilitySign ==
    Calculated =>
        /\ tax_data.taxes_paid = taxes_paid
        /\ RAdd(tax_data.tax_liability, IntRat(taxes_paid)) = tax_data.total_tax
        /\ RLess(tax_data.total_tax, IntRat(taxes_paid)) =>
                tax_data.tax_liability.n < 0
        /\ taxes_paid = 0 => tax_data.tax_liability = tax_data.total_tax

\* a tax was due and more than it had been paid: a refund
C9_Witness ==
    /\ Calculated
    /\ tax_data.total_tax.n > 0
    /\ RLess(tax_data.total_tax, IntRat(taxes_paid))
    /\ tax_data.tax_liability.n < 0

\* C10: whatever the signs of the input gains, the four taxable bases,
\* net_ltcg, net_stcg, the four category taxes and total_tax are >= 0.
C10_NoNegativeTax ==
    Calculated =>
        /\ tax_data.foreign_ltcg_taxable.n >= 0
        /\ tax_data.indian_ltcg_taxable.n >= 0
        /\ tax_data.foreign_stcg_taxable >= 0
        /\ tax_data.indian_stcg_taxable >= 0
        /\ tax_data.net_ltcg >= 0
        /\ tax_data.net_stcg >= 0
        /\ tax_data.foreign_ltcg_tax.n >= 0
        /\ tax_data.indian_ltcg_tax.n >= 0
        /\ tax_data.foreign_stcg_tax.n >= 0
        /\ tax_data.indian_stcg_tax.n >= 0
        /\ tax_data.total_tax.n >= 0
        /\ tax_data.foreign_ltcg_taxable.d > 0
        /\ tax_data.indian_ltcg_taxable.d > 0
        /\ tax_data.total_tax.d > 0

\* losses larger than the gains in both holding periods: nothing to tax
C10_Witness ==
    /\ Calculated
    /\ tax_data.schwab_stcg + tax_data.indian_stcg < 0
    /\ tax_data.schwab_ltcg + tax_data.indian_ltcg_after_rebate < 0
    /\ tax_data.foreign_stcg_gain + tax_data.indian_ltcg_gain > 0
    /\ tax_data.total_tax = IntRat(0)

AllRecords == sale_transactions \o eac_sale_transactions

\* C12: every record either Schwab parser emits has holding_period_days =
\* sale_date - acquisition_date in days, and is_long_term exactly when
\* holding_period_days > 730; exactly 730 days is short-term.
C12_HoldingPeriodBoundary ==
    \A k \in 1..Len(AllRecords) :
        LET r == AllRecords[k]
        IN  /\ r.holding_period_days = r.sale_date - r.acquisition_date
            /\ r.is_long_term <=> r.holding_period_days > 730
            /\ r.holding_period_days = 730 => ~r.is_long_term

\* the equity-award parser emitted a lot sold two years to the day after it
\* vested, short-term, and returned
C12_Witness ==
    /\ eac_pc = "done"
    /\ \E k \in 1..Len(eac_sale_transactions) :
            /\ eac_sale_transactions[k].holding_period_days = 730
            /\ ~eac_sale_transactions[k].is_long_term

\* the brokerage parser emitted, for one sell, a lot held 731 days as
\* long-term and a lot held 730 days as short-term
C12_IndividualBoundaryReached ==
    /\ pc = "done"
    /\ \E j, k \in 1..Len(sale_transactions) :
            /\ sale_transactions[j].holding_period_days = 731
            /\ sale_transactions[j].is_long_term
            /\ sale_transactions[k].holding_period_days = 730
            /\ ~sale_transactions[k].is_long_term

\* the equity-award parser emitted a lot held 731 days as long-term
C12_EacLongTermReached ==
    \E k \in 1..Len(eac_sale_transactions) :
        /\ eac_sale_transactions[k].holding_period_days = 731
        /\ eac_sale_transactions[k].is_long_term

\* the transaction the equity-award parser's loop is at
EacNextTxn == eac_transactions[eac_idx]

\* a step of the equity-award parser's loop
EacStep == eac_pc = "loop" /\ eac_idx <= Len(eac_transactions)
                /\ eac_idx' = eac_idx + 1

\* the records the step appended
EacNewRecords ==
    SubSeq(eac_sale_transactions', Len(eac_sale_transactions) + 1,
           Len(eac_sale_transactions'))

\* the acquisition date string a lot detail carries for its type code
AcquisitionDateOf(d) ==
    IF d.Type = "RS" THEN d.VestDate
    ELSE IF d.Type = "ESPP" THEN d.PurchaseDate
    ELSE ""

\* the lot detail d of txn is one the claim lets through
Emittable(txn, d) ==
    /\ txn.Action = "Sale"
    /\ ParseDate(txn.Date) >= eac_start_date
    /\ d.Type \in {"RS", "ESPP"}
    /\ AcquisitionDateOf(d) # ""
    /\ d.Shares # "0"

\* C18: SchwabEACParser.parse emits a record for a lot detail only when the
\* record's Action is "Sale", its date is on or after start_date (on
\* start_date included), the lot's type is RS or ESPP with its vest or
\* purchase date present, and its share count is not zero.  Every other
\* record or lot yields nothing, and the loop goes on to the next record
\* (nothing is raised).
C18_EacEmitsOnlyQualifyingLots ==
    /\ [][EacStep =>
            LET txn == EacNextTxn
                lots == SelectSeq(txn.TransactionDetails,
                                  LAMBDA d : Emittable(txn, d))
            IN  /\ Len(eac_sale_transactions') >= Len(eac_sale_transactions)
                /\ SubSeq(eac_sale_transactions', 1, Len(eac_sale_transactions))
                        = eac_sale_transactions
                /\ Len(EacNewRecords) = Len(lots)
                /\ \A k \in 1..Len(lots) :
                        /\ EacNewRecords[k].stock_type = lots[k].Type
                        /\ EacNewRecords[k].shares = IntShares(lots[k].Shares)
                        /\ EacNewRecords[k].shares # 0
                        /\ EacNewRecords[k].sale_date = ParseDate(txn.Date)
                        /\ EacNewRecords[k].sale_date >= eac_start_date
                        /\ EacNewRecords[k].acquisition_date
                                = ParseDate(AcquisitionDateOf(lots[k]))]_vars
    /\ [](eac_pc = "loop" => ENABLED <<NextEAC>>_vars)

\* a sale dated exactly start_date with two lots of which one was emitted
\* and the other, of no share, of no date or of another type, was not
C18_Witness ==
    /\ eac_pc = "done"
    /\ Len(eac_transactions) = 1
    /\ eac_transactions[1].Action = "Sale"
    /\ ParseDate(eac_transactions[1].Date) = eac_start_date
    /\ Len(eac_transactions[1].TransactionDetails) = 2
    /\ Len(eac_sale_transactions) = 1

\* a sale dated before start_date whose lot would otherwise be emitted
C18_EarlierSaleSkipped ==
    /\ eac_pc = "done"
    /\ Len(eac_transactions) = 1
    /\ eac_transactions[1].Action = "Sale"
    /\ ParseDate(eac_transactions[1].Date) < eac_start_date
    /\ \E k \in 1..Len(eac_transactions[1].TransactionDetails) :
            LET d == eac_transactions[1].TransactionDetails[k]
            IN  d.Type = "RS" /\ d.VestDate # "" /\ d.Shares # "0"
    /\ eac_sale_transactions = <<>>

\* the sum of fees_and_commissions_usd over the first k records
RECURSIVE SumFeesUsd(_, _)
SumFeesUsd(records, k) ==
    IF k = 0 THEN IntRat(0)
    ELSE RAdd(SumFeesUsd(records, k - 1), records[k].fees_and_commissions_usd)

\* a step of the equity-award parser's loop over a Sale on or after start_date
EacSaleStep ==
    /\ EacStep
    /\ EacNextTxn.Action = "Sale"
    /\ ParseDate(EacNextTxn.Date) >= eac_start_date

\* F, the sale's FeesAndCommissions
EacFeeOfNext == ParseCurrency(EacNextTxn.FeesAndCommissions)

\* the sum of shares over all lot details of the sale
EacSharesOfNext ==
    SumFirst([k \in 1..Len(EacNextTxn.TransactionDetails) |->
                IntShares(EacNextTxn.TransactionDetails[k].Shares)],
             Len(EacNextTxn.TransactionDetails))

\* each record of the sale carries F * lot_shares / (shares of all lot details)
EacEachRecordCarriesItsShare ==
    \A k \in 1..Len(EacNewRecords) :
        EacNewRecords[k].fees_and_commissions_usd
            = Rat(EacFeeOfNext * EacNewRecords[k].shares, EacSharesOfNext)

C19_DroppedLotReached ==
    /\ eac_pc = "done"
    /\ Len(eac_sale_transactions) = 1
    /\ eac_sale_transactions[1].fees_and_commissions_usd = IntRat(3)

\* Q, the quantity of the sell the loop is at
QuantityOfNext == Float(NextTxn.Quantity)

\* the shares of the sell that found a lot
MatchedOfNext == SumShares(NewRecords)

\* the fees of the records of the sell, summed
FeesOfNewRecords == SumFeesUsd(NewRecords, Len(NewRecords))

\* C20 as stated: each record of a Sell of quantity Q with fee F carries
\* F * shares_taken / Q (stated without the division: fee * Q = F * taken),
\* and the records' fees sum to F when the sell is fully matched and to
\* F * matched / Q when part of it is unmatched.
C20_FeesSumToFWhenMatched ==
    [][SellStepFromStart =>
            /\ \A k \in 1..Len(NewRecords) :
                    RMul(NewRecords[k].fees_and_commissions_usd,
                         IntRat(QuantityOfNext))
                        = IntRat(NextTxn.Fees * NewRecords[k].shares)
            /\ MatchedOfNext = QuantityOfNext =>
                    FeesOfNewRecords = IntRat(NextTxn.Fees)
            /\ MatchedOfNext < QuantityOfNext =>
                    FeesOfNewRecords
                        = Rat(NextTxn.Fees * MatchedOfNext, QuantityOfNext)]_vars

\* C20 amended: for a Sell of quantity Q > 0 with fee F each record carries
\* F * shares_taken / Q, so the records of the sell carry fees summing to F
\* when it is fully matched and to F * matched / Q when part of it is
\* unmatched; for a Sell of quantity 0 every record carries fee 0.
C20_FeesByShareOfPositiveQuantity ==
    [][SellStepFromStart =>
            /\ QuantityOfNext > 0 =>
                /\ \A k \in 1..Len(NewRecords) :
                        NewRecords[k].fees_and_commissions_usd
                            = Rat(NextTxn.Fees * NewRecords[k].shares,
                                  QuantityOfNext)
                /\ MatchedOfNext = QuantityOfNext =>
                        FeesOfNewRecords = IntRat(NextTxn.Fees)
                /\ MatchedOfNext < QuantityOfNext =>
                        FeesOfNewRecords
                            = Rat(NextTxn.Fees * MatchedOfNext, QuantityOfNext)
            /\ QuantityOfNext = 0 =>
                \A k \in 1..Len(NewRecords) :
                    NewRecords[k].fees_and_commissions_usd = IntRat(0)]_vars

\* a sell of two shares matched by two lots of one share: half the fee each
C20_Witness ==
    /\ pc = "done"
    /\ Len(sale_transactions) = 2
    /\ sale_transactions[1].sale_date = sale_transactions[2].sale_date
    /\ sale_transactions[1].shares = 1
    /\ sale_transactions[2].shares = 1
    /\ sale_transactions[1].fees_and_commissions_usd = IntRat(3)
    /\ sale_transactions[2].fees_and_commissions_usd = IntRat(3)

\* a sell of two shares of which one found a lot: the record carries half
\* the fee
C20_PartlyUnmatchedReached ==
    /\ pc = "done"
    /\ Len(sale_transactions) = 1
    /\ sale_transactions[1].shares = 1
    /\ sale_transactions[1].fees_and_commissions_usd = IntRat(3)

\* a sell of no share with a fee: its record carries no fee
C20_SellOfNothingReached ==
    /\ pc = "done"
    /\ Len(sale_transactions) = 1
    /\ sale_transactions[1].shares = 0
    /\ sale_transactions[1].fees_and_commissions_usd = IntRat(0)

\* the step is a call of get_rate
GetRateStep == call'.op = "get_rate"

LaterWithinWeek(table, date) ==
    {t \in DOMAIN table : t - date >= 1 /\ t - date <= 7}

\* the table dates 1..7 days before the date
EarlierWithinWeek(table, date) ==
    {t \in DOMAIN table : date - t >= 1 /\ date - t <= 7}

Least(dates) == CHOOSE t \in dates : \A u \in dates : t <= u

Greatest(dates) == CHOOSE t \in dates : \A u \in dates : t >= u

\* get_rate for a date not in the cache, with a table loaded and use_sbi
UncachedTableLookup ==
    /\ GetRateStep
    /\ call'.date \notin DOMAIN cache
    /\ call'.use_sbi
    /\ DOMAIN sbi_rates # {}

\* C14: for an uncached date, a loaded table and use_sbi true, get_rate
\* returns the exact date's rate if the table has it; otherwise the rate of
\* the nearest later date within 1..7 days; otherwise the rate of the
\* nearest earlier date within 1..7 days.  A later date within 7 days wins
\* over a closer earlier one, and a date more than 7 days away is never
\* used: with none nearer the result is the approximation.
C14_ResolutionOrder ==
    [][UncachedTableLookup =>
            LET date == call'.date
                later == LaterWithinWeek(sbi_rates, date)
                earlier == EarlierWithinWeek(sbi_rates, date)
            IN  /\ date \in DOMAIN sbi_rates =>
                    call'.result = sbi_rates[date]
                /\ date \notin DOMAIN sbi_rates /\ later # {} =>
                    call'.result = sbi_rates[Least(later)]
                /\ date \notin DOMAIN sbi_rates /\ later = {} /\ earlier # {} =>
                    call'.result = sbi_rates[Greatest(earlier)]
                /\ date \notin DOMAIN sbi_rates /\ later = {} /\ earlier = {} =>
                    call'.result = GetApproximateRate(date)]_vars

\* 2025-04-01 resolved from a table that has the day before and the day a
\* week after but not the day itself: the later rate was returned
C14_Witness ==
    /\ call.op = "get_rate"
    /\ call.use_sbi
    /\ call.date = 822
    /\ DOMAIN sbi_rates \cap 821..829 = {821, 829}
    /\ sbi_rates[821] # sbi_rates[829]
    /\ call.result = sbi_rates[829]
    /\ cache[822] = sbi_rates[829]

\* 2025-04-01 resolved from a table whose only dates are 8 days either side
C14_EightDaysAwayReached ==
    /\ call.op = "get_rate"
    /\ call.use_sbi
    /\ call.date = 822
    /\ DOMAIN sbi_rates = {814, 830}
    /\ call.result = Rat(850, 10)

\* 2025-04-01 resolved from the day a week before, nothing later in reach
C14_EarlierReached ==
    /\ call.op = "get_rate"
    /\ call.use_sbi
    /\ call.date = 822
    /\ DOMAIN sbi_rates = {814, 815, 830}
    /\ call.result = PublishedRate(815)

\* the quarter of the year a date lies in, 1..4
QuarterOf(date) ==
    CASE Month(date) \in {1, 2, 3} -> 1
      [] Month(date) \in {4, 5, 6} -> 2
      [] Month(date) \in {7, 8, 9} -> 3
      [] Month(date) \in {10, 11, 12} -> 4

\* the quarterly approximation for the date, 84.5 when its quarter has none
ApproximationFor(date) ==
    IF <<Year(date), QuarterOf(date)>> \in DOMAIN APPROXIMATE_RATES
    THEN APPROXIMATE_RATES[<<Year(date), QuarterOf(date)>>]
    ELSE Rat(845, 10)

\* no date of the table lies within 7 days of the date
NoTableDateWithinWeek(table, date) ==
    \A t \in DOMAIN table : t - date > 7 \/ date - t > 7

\* the call falls through to the approximation, by the claim's conditions
ApproximationCase ==
    \/ ~call'.use_sbi
    \/ DOMAIN sbi_rates = {}
    \/ NoTableDateWithinWeek(sbi_rates, call'.date)

\* every rate of the table is positive
PositiveTable == \A t \in DOMAIN sbi_rates : sbi_rates[t].n > 0

\* get_rate can be called for every date with either flag
GetRateNeverRaises ==
    \A date \in QueryDates, use_sbi \in BOOLEAN : ENABLED GetRate(date, use_sbi)

\* C15 as stated: with a table of positive rates, or none, get_rate returns
\* a rate > 0 without raising; when use_sbi is false, the table is empty or
\* no table date lies within 7 days, the result is the quarterly
\* approximation of the date, 84.5 when its quarter has none, and is cached.
C15_ApproximationWheneverNoTableRate ==
    /\ [][GetRateStep =>
            /\ call'.result.n > 0
            /\ ApproximationCase =>
                    /\ call'.result = ApproximationFor(call'.date)
                    /\ call'.date \in DOMAIN cache'
                    /\ cache'[call'.date] = call'.result]_vars
    /\ [](PositiveTable /\ GetRateNeverRaises)

\* C15 amended: with a table of positive rates, or none, get_rate returns a
\* rate > 0 without raising; for a date not yet in the cache, when use_sbi
\* is false, the table is empty or no table date lies within 7 days, the
\* result is the quarterly approximation of the date, 84.5 when its quarter
\* has none, and is cached; for a date in the cache the result is the
\* cached rate whatever the flag and the table.
C15_ApproximationForUncachedDate ==
    /\ [][GetRateStep =>
            /\ call'.result.n > 0
            /\ call'.result.d > 0
            /\ call'.date \notin DOMAIN cache /\ ApproximationCase =>
                    /\ call'.result = ApproximationFor(call'.date)
                    /\ call'.date \in DOMAIN cache'
                    /\ cache'[call'.date] = call'.result
            /\ call'.date \in DOMAIN cache =>
                    call'.result = cache[call'.date]]_vars
    /\ [](PositiveTable /\ GetRateNeverRaises)

\* 2026-01-05, a quarter without approximation and more than 7 days from
\* every date of the loaded table, resolved with use_sbi: 84.5, cached
C15_Witness ==
    /\ call.op = "get_rate"
    /\ call.use_sbi
    /\ call.date = 1101
    /\ DOMAIN sbi_rates # {}
    /\ call.result = Rat(845, 10)
    /\ cache[1101] = Rat(845, 10)

\* 2025-03-24 resolved without the table although the table has the date:
\* the approximation of the first quarter of 2025
C15_WithoutSbiReached ==
    /\ call.op = "get_rate"
    /\ ~call.use_sbi
    /\ call.date = 814
    /\ 814 \in DOMAIN sbi_rates
    /\ call.result = Rat(855, 10)
    /\ cache[814] = Rat(855, 10)

\* get_rate without use_sbi returned a cached table rate, not the
\* approximation
C15_CachedTableRateReached ==
    /\ call.op = "get_rate"
    /\ ~call.use_sbi
    /\ call.date = 822
    /\ call.result = PublishedRate(822)

\* the step is a call of save_cache_to_file
SaveStep == call'.op = "save_cache_to_file"

\* the service holds the table of the rates file and the date asked for is
\* in that table and not in the service's own cache
LookupInReloadedFile ==
    /\ GetRateStep
    /\ call'.use_sbi
    /\ rate_file.exists
    /\ sbi_rates = JsonLoad(rate_file.text)
    /\ call'.date \in DOMAIN sbi_rates
    /\ call'.date \notin DOMAIN cache

Translated == calc_pc = "done"

\* C17: after CapitalGainsCalculator.calculate every transaction has
\* sale_exchange_rate and acquisition_exchange_rate equal to the rates
\* resolved for its sale and acquisition dates, capital_gain_usd =
\* (sale_price_usd - acquisition_price_usd) * shares - fees_usd, and
\* capital_gain_inr = sale_price_usd * sale_rate * shares
\* - acquisition_price_usd * acq_rate * shares - fees_usd * sale_rate: the
\* fees go at the rate of the sale date.
C17_CurrencyTranslation ==
    Translated =>
        \A k \in 1..Len(calc_transactions) :
            LET txn == calc_transactions[k]
                sale_rate == GetRateOf(cache, sbi_rates, txn.sale_date,
                                       calc_use_sbi).rate
                acq_rate == GetRateOf(cache, sbi_rates, txn.acquisition_date,
                                      calc_use_sbi).rate
                shares == IntRat(txn.shares)
            IN  /\ txn.sale_exchange_rate = sale_rate
                /\ txn.acquisition_exchange_rate = acq_rate
                /\ txn.sale_exchange_rate = cache[txn.sale_date]
                /\ txn.acquisition_exchange_rate = cache[txn.acquisition_date]
                /\ txn.capital_gain_usd =
                        RSub(RMul(RSub(IntRat(txn.sale_price_usd),
                                       IntRat(txn.acquisition_price_usd)),
                                  shares),
                             txn.fees_and_commissions_usd)
                /\ txn.capital_gain_inr =
                        RSub(RSub(RMul(RMul(IntRat(txn.sale_price_usd),
                                            sale_rate), shares),
                                  RMul(RMul(IntRat(txn.acquisition_price_usd),
                                            acq_rate), shares)),
                             RMul(txn.fees_and_commissions_usd, sale_rate))

\* two shares acquired at $10 on 2025-03-24 (86.01 in the table) and sold at
\* $30 on 2025-04-01 (86.10, the rate of the day after) with $3 of fees:
\* 30 * 86.10 * 2 - 10 * 86.01 * 2 - 3 * 86.10 = 3187.50 rupees
C17_Witness ==
    /\ Translated
    /\ calc_use_sbi
    /\ \E k \in 1..Len(calc_transactions) :
            LET txn == calc_transactions[k]
            IN  /\ txn.sale_date = 822
                /\ txn.acquisition_date = 814
                /\ txn.acquisition_price_usd = 10
                /\ txn.sale_exchange_rate = Rat(8610, 100)
                /\ txn.acquisition_exchange_rate = Rat(8601, 100)
                /\ txn.fees_and_commissions_inr = Rat(25830, 100)
                /\ txn.capital_gain_usd = IntRat(37)
                /\ txn.capital_gain_inr = Rat(318750, 100)

----------------------------------------------------------------------------
(* The entry points.                                                       *)

\* the supplied sources whose file cannot be parsed, and those that can
Malformed == {s \in Sources : files[s] = "malformed"}

Parseable == {s \in Sources : files[s] = "ok"}

\* a run of either entry point that got to its inputs has ended
RunEnded == entry # "" /\ main_pc \in {"no_data", "raised", "done"}

SourcesIn(records) == {records[i].source : i \in 1..Len(records)}

ParsedGains(gains) == SelectSeq(gains, LAMBDA g : g.parsed)

\* the sources whose content the run holds
ProcessedSources ==
    SourcesIn(all_transactions) \union SourcesIn(ParsedGains(main_indian_gains))

\* C21: failure isolation between input sources.  When a run of main() or
\* of the web app's Calculate handler ends and some supplied source could
\* not be parsed, an error was reported for exactly the unparseable sources,
\* every other supplied source was processed, and, if there is one, the tax
\* result was computed from the content of exactly those.
C21_FailureIsolation ==
    (RunEnded /\ Malformed # {}) =>
        /\ errors = Malformed
        /\ ProcessedSources = Parseable
        /\ Parseable # {} =>
            /\ main_tax_data.computed
            /\ SourcesIn(main_tax_data.transactions)
                    \union SourcesIn(ParsedGains(main_tax_data.indian_gains))
                = Parseable

\* the same statement for the web app alone, and for main() when the
\* Schwab exports it reads are well-formed
IsolationInApp == entry = "app" => C21_FailureIsolation

IsolationInMainForWorkbooks ==
    (entry = "main" /\ Malformed \subseteq IndianSources) => C21_FailureIsolation

SameLetter(c, u) ==
    \/ c = u
    \/ <<c, u>> \in {<<"a", "A">>, <<"c", "C">>, <<"e", "E">>, <<"p", "P">>,
                     <<"t", "T">>}

\* the answer is the word ACCEPT in any letter case, blanks around it aside
AnswersAccept(r) ==
    /\ r.kind = "text"
    /\ \E i \in 1..Len(r.text) :
        /\ i + 5 <= Len(r.text)
        /\ \A k \in 1..6 : SameLetter(r.text[i + k - 1], <<"A", "C", "C", "E", "P", "T">>[k])
        /\ \A k \in 1..Len(r.text) : (k < i \/ k > i + 5) => r.text[k] = " "

PastGate ==
    main_pc \in {"setup", "eac", "individual", "stocks", "mf", "zerodha",
                 "check", "calculate", "no_data", "raised", "done"}

\* C22: the EULA gate of main().  A run of main() is past the gate, has
\* read an input or has calculated only if the marker exists and either no
\* prompt was shown (the marker was already there) or the answer was ACCEPT
\* in some letter case; the marker comes into being only at the prompt and
\* only on such an answer; any other answer, Ctrl+C or EOF ends the run
\* with the marker absent and nothing read; and a run that finds no marker
\* prompts.
C22_EulaGate ==
    /\ []((entry = "main" /\ (PastGate \/ opened # {} \/ main_tax_data.computed))
            => (eula_marker /\ (response = NoResponse \/ AnswersAccept(response))))
    /\ [][entry' = "main" =>
            /\ (~eula_marker /\ eula_marker') =>
                    (main_pc = "prompt" /\ AnswersAccept(response'))
            /\ (main_pc = "prompt" /\ AnswersAccept(response')) =>
                    (eula_marker' /\ main_pc' = "setup")
            /\ (main_pc = "prompt" /\ ~AnswersAccept(response')) =>
                    /\ ~eula_marker'
                    /\ main_pc' = "returned"
                    /\ opened' = {}
                    /\ ~main_tax_data'.computed
            /\ (main_pc = "args" /\ ~args.show_eula /\ ~args.reset_eula
                    /\ ~eula_marker) =>
                    main_pc' = "prompt"]_vars

\* a run that was let through on a lower-case answer and calculated
C22_Witness ==
    /\ entry = "main"
    /\ main_pc = "done"
    /\ response = Text(<<"a", "c", "c", "e", "p", "t">>)
    /\ opened # {}
    /\ main_tax_data.computed

\* a run ended by Ctrl+C at the prompt
C22_Declined ==
    /\ entry = "main"
    /\ main_pc = "returned"
    /\ response.kind = "KeyboardInterrupt"
    /\ ~eula_marker

----------------------------------------------------------------------------
(* The order of the long-term set-off.                                     *)

\* the short-term loss left after the set-off against the STCG gains
StcgLossAfterStcg ==
    StcgLossIn - tax_data.stcg_loss_vs_foreign_stcg
               - tax_data.stcg_loss_vs_indian_stcg

TotalLtcgLossIn ==
    Loss(tax_data.schwab_ltcg) + Loss(tax_data.indian_ltcg_after_rebate)

\* C23: the short-term loss left after the STCG gains goes against the
\* combined LTCG gain pool before any long-term loss does:
\* stcg_loss_vs_ltcg = min(remaining STCG loss, pool), ltcg_loss_vs_ltcg =
\* min(total LTCG loss, pool - stcg_loss_vs_ltcg), and net_ltcg is the pool
\* less the two.
C23_ShortTermLossFirst ==
    Calculated =>
        /\ tax_data.stcg_loss_vs_ltcg = Min(StcgLossAfterStcg, LtcgGainPool)
        /\ tax_data.ltcg_loss_vs_ltcg
             = Min(TotalLtcgLossIn, LtcgGainPool - tax_data.stcg_loss_vs_ltcg)
        /\ tax_data.net_ltcg
             = LtcgGainPool - tax_data.stcg_loss_vs_ltcg
                            - tax_data.ltcg_loss_vs_ltcg

\* a short-term loss and a long-term loss compete for a pool too small for
\* both: the short-term loss takes it
C23_Witness ==
    /\ Calculated
    /\ StcgLossAfterStcg > 0
    /\ TotalLtcgLossIn > 0
    /\ LtcgGainPool > 0
    /\ LtcgGainPool < StcgLossAfterStcg + TotalLtcgLossIn
    /\ tax_data.stcg_loss_vs_ltcg = Min(StcgLossAfterStcg, LtcgGainPool)
    /\ tax_data.ltcg_loss_vs_ltcg < TotalLtcgLossIn

----------------------------------------------------------------------------
(* The rates a calculator is built with.                                   *)

\* C24: the tax computation uses the injected rates.  Each category tax is
\* its taxable base times the rate of that category in the rates the
\* calculator holds, ltcg_tax and stcg_tax are the sums of their two
\* categories, total_tax is their sum, and the rates and the exemption
\* recorded on the result are those rates.
C24_InjectedRates ==
    Calculated =>
        /\ tax_data.foreign_ltcg_tax
             = RMul(tax_data.foreign_ltcg_taxable, rates.FOREIGN_LTCG)
        /\ tax_data.indian_ltcg_tax
             = RMul(tax_data.indian_ltcg_taxable, rates.INDIAN_LTCG)
        /\ tax_data.indian_stcg_tax
             = RMul(IntRat(tax_data.indian_stcg_taxable), rates.INDIAN_STCG)
        /\ tax_data.foreign_stcg_tax
             = RMul(IntRat(tax_data.foreign_stcg_taxable), rates.FOREIGN_STCG)
        /\ tax_data.ltcg_tax
             = RAdd(tax_data.foreign_ltcg_tax, tax_data.indian_ltcg_tax)
        /\ tax_data.stcg_tax
             = RAdd(tax_data.indian_stcg_tax, tax_data.foreign_stcg_tax)
        /\ tax_data.total_tax = RAdd(tax_data.ltcg_tax, tax_data.stcg_tax)
        /\ tax_data.indian_ltcg_rate = rates.INDIAN_LTCG
        /\ tax_data.foreign_ltcg_rate = rates.FOREIGN_LTCG
        /\ tax_data.indian_stcg_rate = rates.INDIAN_STCG
        /\ tax_data.foreign_stcg_rate = rates.FOREIGN_STCG
        /\ tax_data.ltcg_rebate = rates.LTCG_EXEMPTION

\* a calculator built with rates of its own taxes all four categories
C24_Witness ==
    /\ Calculated
    /\ rates \in InjectedRates
    /\ rates.FOREIGN_STCG = Rat(3, 10)
    /\ tax_data.foreign_ltcg_tax.n > 0
    /\ tax_data.indian_ltcg_tax.n > 0
    /\ tax_data.indian_stcg_tax.n > 0
    /\ tax_data.foreign_stcg_tax.n > 0
    /\ tax_data.foreign_stcg_tax
         = RMul(IntRat(tax_data.foreign_stcg_taxable), Rat(3, 10))

----------------------------------------------------------------------------
(* The short-term loss and the two STCG gain buckets.                      *)

\* C29: in every result of calculate() at most one of
\* stcg_loss_vs_foreign_stcg and stcg_loss_vs_indian_stcg is positive.  Each
\* STCG bucket is a net figure, a gain or a loss and never both, so a
\* set-off against the gain of one bucket is a loss of the other bucket and
\* leaves nothing to set off against that other bucket.
C29_ShortTermLossNeverSplit ==
    Calculated =>
        /\ ~(tax_data.stcg_loss_vs_foreign_stcg > 0
                /\ tax_data.stcg_loss_vs_indian_stcg > 0)
        /\ ~(tax_data.foreign_stcg_gain > 0 /\ tax_data.foreign_stcg_loss > 0)
        /\ ~(tax_data.indian_stcg_gain > 0 /\ tax_data.indian_stcg_loss > 0)
        /\ tax_data.stcg_loss_vs_foreign_stcg > 0 =>
                /\ tax_data.foreign_stcg_loss = 0
                /\ tax_data.indian_stcg_loss > 0
                /\ tax_data.indian_stcg_gain = 0
        /\ tax_data.stcg_loss_vs_indian_stcg > 0 =>
                /\ tax_data.indian_stcg_loss = 0
                /\ tax_data.foreign_stcg_loss > 0
                /\ tax_data.foreign_stcg_gain = 0

\* an Indian short-term loss larger than the foreign STCG gain it is set off
\* against: what is left finds no Indian STCG gain
C29_Witness ==
    /\ Calculated
    /\ tax_data.stcg_loss_vs_foreign_stcg > 0
    /\ tax_data.indian_stcg_loss > tax_data.stcg_loss_vs_foreign_stcg
    /\ tax_data.stcg_loss_vs_indian_stcg = 0

\* a foreign short-term loss set off against an Indian STCG gain
C29_WitnessIndian ==
    /\ Calculated
    /\ tax_data.stcg_loss_vs_indian_stcg > 0
    /\ tax_data.foreign_stcg_loss > 0
    /\ tax_data.stcg_loss_vs_foreign_stcg = 0

----------------------------------------------------------------------------
(* The rate cache across flags and loads.                                  *)

\* the step leaves the service and its cache in being
KeepsCache == call'.op \notin {"clear_cache", "__init__"}

\* C30: the rate cache is keyed by the date alone and is sticky.  The first
\* get_rate for a date stores what it resolved; from then on, until
\* clear_cache (or a new service), get_rate for that date returns the stored
\* value and changes nothing, with either use_sbi flag and whatever table
\* load_sbi_rates has loaded since; clear_cache empties the cache.
C30_StickyCache ==
    [][/\ (GetRateStep /\ call'.date \notin DOMAIN cache) =>
            /\ call'.result
                 = ResolveRate(sbi_rates, call'.date, call'.use_sbi)
            /\ cache' = DictSet(cache, call'.date, call'.result)
       /\ (GetRateStep /\ call'.date \in DOMAIN cache) =>
            /\ call'.result = cache[call'.date]
            /\ cache' = cache
       /\ KeepsCache =>
            \A d \in DOMAIN cache :
                /\ d \in DOMAIN cache'
                /\ cache'[d] = cache[d]
                /\ \A use_sbi \in BOOLEAN :
                     GetRateOf(cache', sbi_rates', d, use_sbi).rate = cache[d]
       /\ call'.op = "clear_cache" => cache' = EmptyDict]_vars

\* an approximation cached by a use_sbi=False call is returned to a
\* use_sbi=True call made after load_sbi_rates brought an exact rate for
\* the date
C30_Witness ==
    /\ call.op = "get_rate"
    /\ call.use_sbi
    /\ call.date \in DOMAIN sbi_rates
    /\ call.result = GetApproximateRate(call.date)
    /\ call.result # sbi_rates[call.date]
    /\ cache[call.date] = call.result

----------------------------------------------------------------------------
(* Lots per symbol and per call of parse().                                *)

\* one iteration of the loop of parse() is taken
LoopStep == InLoop /\ idx' = idx + 1

\* the record was cut from one of these lots
CutFrom(r, lots) ==
    \E j \in 1..Len(lots) :
        /\ lots[j].symbol = r.symbol
        /\ lots[j].purchase_date = r.acquisition_date
        /\ lots[j].price = r.acquisition_price_usd
        /\ r.shares <= lots[j].quantity

\* the records of a pass over txns[k..] that starts from the given lots
RECURSIVE RecordsFrom(_, _, _)
RecordsFrom(txns, k, lots) ==
    IF k > Len(txns) THEN <<>>
    ELSE LET txn == txns[k]
             q == Float(txn.Quantity)
         IN  IF IsBuy(txn)
             THEN RecordsFrom(txns, k + 1,
                    [lots EXCEPT ![txn.Symbol] =
                        Append(@, StockLot(txn.Date, txn.Symbol, q, txn.Price))])
             ELSE IF IsSell(txn) /\ txn.Date < start_date
             THEN RecordsFrom(txns, k + 1,
                    [lots EXCEPT ![txn.Symbol] = ConsumeLots(@, 1, q)])
             ELSE IF IsSell(txn)
             THEN ProcessSaleRecords(txn, lots[txn.Symbol]) \o
                  RecordsFrom(txns, k + 1,
                    [lots EXCEPT ![txn.Symbol] = ProcessSaleLots(txn, @)])
             ELSE RecordsFrom(txns, k + 1, lots)

\* what parse() returns for the export when it starts from an empty inventory
FirstCallRecords ==
    RecordsFrom(SortedByDate(transactions), 1, [s \in Symbols |-> <<>>])

\* C25: lots are kept per symbol and per call.  An event of one symbol
\* leaves the lots of every other symbol as they are; the records of a sell
\* carry its symbol, are cut from lots of that symbol and account for all
\* the shares those lots lose; every lot lies under its own symbol; and
\* whatever calls went before, parse() returns the records of a call that
\* starts from an empty inventory, so the same export parsed twice by the
\* same parser gives the same records.
C25_LotsPerSymbolAndCall ==
    /\ [](\A s \in Symbols : \A j \in 1..Len(lots_by_symbol[s]) :
                lots_by_symbol[s][j].symbol = s)
    /\ [](pc = "done" => sale_transactions = FirstCallRecords)
    /\ [][LoopStep =>
            /\ \A s \in Symbols \ {NextTxn.Symbol} :
                    lots_by_symbol'[s] = lots_by_symbol[s]
            /\ \A k \in 1..Len(NewRecords) :
                    /\ NewRecords[k].symbol = NextTxn.Symbol
                    /\ CutFrom(NewRecords[k], lots_by_symbol[NextTxn.Symbol])
            /\ SellStepFromStart =>
                    SumShares(NewRecords)
                        = SumRemaining(lots_by_symbol[NextTxn.Symbol])
                          - SumRemaining(lots_by_symbol'[NextTxn.Symbol])]_vars

\* a sell of one symbol took its shares from that symbol's lot and left an
\* older or equally old lot of the other symbol whole
C25_Witness ==
    /\ pc = "done"
    /\ Len(sale_transactions) > 0
    /\ \E s \in Symbols, o \in Symbols :
        /\ s # o
        /\ Len(lots_by_symbol[s]) > 0
        /\ Len(lots_by_symbol[o]) > 0
        /\ lots_by_symbol[s][1].remaining < lots_by_symbol[s][1].quantity
        /\ lots_by_symbol[o][1].remaining = lots_by_symbol[o][1].quantity
        /\ lots_by_symbol[o][1].quantity > 0
        /\ lots_by_symbol[o][1].purchase_date <= lots_by_symbol[s][1].purchase_date
        /\ sale_transactions[1].symbol = s

\* a second call begins while the lots and the records of the first are
\* still in memory
C25_SecondCall ==
    /\ pc = "start"
    /\ sale_transactions # <<>>
    /\ \E s \in Symbols :
        /\ Len(lots_by_symbol[s]) > 0
        /\ lots_by_symbol[s][1].remaining < lots_by_symbol[s][1].quantity

\* C26: lot bounds.  In every state of parse() over Buy, Reinvest Shares
\* and Sell events of non-negative quantity, sells that exceed the inventory
\* and sells before the cutoff among them, every lot has
\* 0 <= remaining <= quantity, and no iteration of the loop raises the
\* remaining of a lot or changes its quantity.
C26_LotBounds ==
    /\ [](\A s \in Symbols : \A j \in 1..Len(lots_by_symbol[s]) :
                /\ 0 <= lots_by_symbol[s][j].remaining
                /\ lots_by_symbol[s][j].remaining <= lots_by_symbol[s][j].quantity)
    /\ [][LoopStep =>
            \A s \in Symbols : \A j \in 1..Len(lots_by_symbol[s]) :
                /\ j <= Len(lots_by_symbol'[s])
                /\ lots_by_symbol'[s][j].remaining <= lots_by_symbol[s][j].remaining
                /\ lots_by_symbol'[s][j].quantity = lots_by_symbol[s][j].quantity]_vars

\* a symbol sold beyond its inventory, a reinvested lot among its lots:
\* every lot of it is at 0, none below
C26_Witness ==
    /\ pc = "done"
    /\ \E j \in 1..Len(sorted_txns) : sorted_txns[j].Action = "Reinvest Shares"
    /\ SoldUpTo("VTI", Len(sorted_txns)) > BoughtUpTo("VTI", Len(sorted_txns))
    /\ Len(lots_by_symbol["VTI"]) >= 1
    /\ SumRemaining(lots_by_symbol["VTI"]) = 0

\* the buys of symbol s among the first k sorted events
BuysBefore(s, k) ==
    SelectSeq(SubSeq(sorted_txns, 1, k), LAMBDA t : IsBuy(t) /\ t.Symbol = s)

\* sorted is txns in date order, events of one date in their order in txns
StableByDate(sorted, txns) ==
    /\ Len(sorted) = Len(txns)
    /\ \E p \in Permutations(1..Len(txns)) :
        /\ \A i \in 1..Len(txns) : sorted[i] = txns[p[i]]
        /\ \A i \in 1..Len(txns) : \A j \in 1..Len(txns) :
              i < j =>
                \/ sorted[i].Date < sorted[j].Date
                \/ (sorted[i].Date = sorted[j].Date /\ p[i] < p[j])

\* C27: a Sell is matched only against lots made by the events before it in
\* date order, events of one date in input order.  The events are taken in
\* that order; the lots of a symbol are at every iteration the buys of that
\* symbol among the events already taken, in order; the records of a sell
\* are cut from those lots; hence every record has
\* acquisition_date <= sale_date and holding_period_days >= 0.
C27_SellSeesOnlyEarlierLots ==
    /\ [](pc \in {"loop", "done"} =>
            /\ StableByDate(sorted_txns, transactions)
            /\ \A s \in Symbols :
                LET buys == BuysBefore(s, idx - 1)
                IN  /\ Len(lots_by_symbol[s]) = Len(buys)
                    /\ \A j \in 1..Len(buys) :
                        /\ lots_by_symbol[s][j].purchase_date = buys[j].Date
                        /\ lots_by_symbol[s][j].quantity = Float(buys[j].Quantity)
                        /\ lots_by_symbol[s][j].price = buys[j].Price)
    /\ [](\A k \in 1..Len(sale_transactions) :
            /\ sale_transactions[k].acquisition_date <= sale_transactions[k].sale_date
            /\ sale_transactions[k].holding_period_days >= 0)
    /\ [][SellStepFromStart =>
            \A k \in 1..Len(NewRecords) :
                /\ NewRecords[k].sale_date = NextTxn.Date
                /\ CutFrom(NewRecords[k], lots_by_symbol[NextTxn.Symbol])]_vars

\* a Sell listed before the only Buy of its symbol, both on the cutoff day:
\* the sell found no lot, the lot is whole
C27_Witness ==
    /\ pc = "done"
    /\ \E i \in 1..Len(transactions), j \in 1..Len(transactions) :
        /\ i < j
        /\ IsSell(transactions[i])
        /\ Float(transactions[i].Quantity) > 0
        /\ IsBuy(transactions[j])
        /\ transactions[i].Symbol = transactions[j].Symbol
        /\ transactions[i].Date = transactions[j].Date
        /\ transactions[i].Date >= start_date
        /\ Len(lots_by_symbol[transactions[i].Symbol]) = 1
        /\ lots_by_symbol[transactions[i].Symbol][1].remaining
             = Float(transactions[j].Quantity)
        /\ RecordsOf(transactions[i].Symbol) = <<>>

\* a Sell listed after a Buy of the same day: a record held for 0 days
C27_SameDayRecord ==
    /\ pc = "done"
    /\ \E k \in 1..Len(sale_transactions) :
        /\ sale_transactions[k].holding_period_days = 0
        /\ sale_transactions[k].shares > 0

\* C28: every sale record parse() emits has shares > 0 and shares <= the
\* quantity of the lot it was matched to, a Sell of quantity 0 included.
C28_PositiveShares ==
    \A k \in 1..Len(sale_transactions) :
        /\ sale_transactions[k].shares > 0
        /\ CutFrom(sale_transactions[k], lots_by_symbol[sale_transactions[k].symbol])

\* the part of C28 the parser keeps: no record exceeds its lot or is negative
SharesWithinLot ==
    \A k \in 1..Len(sale_transactions) :
        /\ sale_transactions[k].shares >= 0
        /\ CutFrom(sale_transactions[k], lots_by_symbol[sale_transactions[k].symbol])

\* the records of no shares come from sells of quantity 0 only
ZeroSharesOnlyForSellOfZero ==
    [][SellStepFromStart =>
        \A k \in 1..Len(NewRecords) :
            NewRecords[k].shares = 0 => Float(NextTxn.Quantity) = 0]_vars

====
